---- MODULE Spec2Model ----
(***************************************************************************)
(* A model of devkit_client/__init__.py: the discovery cache             *)
(* (ServiceListener), the machine resolver (resolve_machine), the          *)
(* DevkitClient calls ssh_command, rsync_transfer and on_cancel_transfer,  *)
(* the polling functions screenshot, _obtain_trace, rgp_capture and        *)
(* set_session, the key store (ensure_devkit_key), locate_cygwin_tools,    *)
(* and the game details file (save_game_details, read_game_details).       *)
(* Each part has a specification of its own.                               *)
(*                                                                         *)
(* Text is modelled at character level: a str is a sequence of one         *)
(* character strings, a bytes object a sequence of byte values.  An        *)
(* optional value is a sequence of length 0 (None) or 1.                   *)
(***************************************************************************)
EXTENDS Integers, Sequences, FiniteSets, TLC

VARIABLES
    g_zeroconf_listener, \* "None", or "listener" once ServiceListener() ran
    devkits,             \* ServiceListener.devkits: service name -> info
    devkit_events,       \* ServiceListener.devkit_events, oldest first
    callbacks,           \* history: the listener callbacks, in call order
    dequeued,            \* history: the events taken off devkit_events
    lookup,              \* the lookup in progress / its outcome
    call,                \* the resolve_machine call in progress / its outcome
    ssh_result,          \* DevkitClient.ssh_result
    ssh_calls,           \* the ssh_command calls of one client, in call order
    rsync_process,       \* DevkitClient.rsync_process: None, or a process
    processes,           \* the rsync processes spawned so far
    transfer,            \* the rsync_transfer call in progress / its outcome
    transfers,           \* the number of rsync_transfer calls made
    cancel,              \* the on_cancel_transfer call in progress / its outcome
    cancels,             \* the number of on_cancel_transfer calls made
    shot,                \* the screenshot call in progress / its outcome
    trace,               \* the _obtain_trace call in progress / its outcome
    session,             \* the set_session call in progress / its outcome
    g_lock,              \* g_lock: None, or the thread that holds it
    private_key_file,    \* the file at key_path
    public_key_file,     \* the file at pubkey_path
    key_thread,          \* per thread, its ensure_devkit_key call / outcome
    key_calls,           \* the number of ensure_devkit_key calls made
    key_log,             \* history: loads, generated keys, writes, returns
    key_start,           \* history: the key files and platform at the start
    g_external_tools,    \* g_external_tools: None, or the cached tuple
    installed_tools,     \* the external tools the machine has
    locate_env,          \* the platform and USERPROFILE of the machine
    locate_log,          \* history: per locate_cygwin_tools call, its outcome
    rgp,                 \* the rgp_capture call in progress / its outcome
    game_dir,            \* the games folder: the files at path and path.new
    inodes,              \* the text of each file made in the games folder
    saver,               \* per thread, its save_game_details call / outcome
    saves                \* the number of save_game_details calls made

\* the variables of DevkitClient.ssh_command
sshVars == <<ssh_result, ssh_calls>>

\* the variables of DevkitClient.rsync_transfer and on_cancel_transfer
rsyncVars == <<rsync_process, processes, transfer, transfers, cancel, cancels>>

\* the variables of screenshot
shotVars == <<shot>>

\* the variables of _obtain_trace and of set_session
pollVars == <<trace, session>>

\* the variables of ensure_devkit_key
keyVars == <<g_lock, private_key_file, public_key_file, key_thread, key_calls, key_log, key_start>>

\* the variables of locate_cygwin_tools
locateVars == <<g_external_tools, installed_tools, locate_env, locate_log>>

\* the variables of rgp_capture
rgpVars == <<rgp>>

\* the variables of save_game_details
gameVars == <<game_dir, inodes, saver, saves>>

\* the variables outside the discovery cache and the resolver
toolVars == <<sshVars, rsyncVars, shotVars, pollVars, keyVars, locateVars, rgpVars, gameVars>>

vars == <<g_zeroconf_listener, devkits, devkit_events, callbacks, dequeued,
          lookup, call, toolVars>>

listenerVars == <<g_zeroconf_listener, devkits, devkit_events, callbacks,
                  dequeued>>

\* the variables of the discovery cache and the resolver
discoveryVars == <<listenerVars, lookup, call>>

\* the variables an action of ssh_command leaves alone
exceptSsh == <<discoveryVars, rsyncVars, shotVars, pollVars, keyVars, locateVars, rgpVars, gameVars>>

\* the variables an action of rsync_transfer or on_cancel_transfer leaves
\* alone
exceptRsync == <<discoveryVars, sshVars, shotVars, pollVars, keyVars, locateVars, rgpVars, gameVars>>

\* the variables an action of screenshot leaves alone
exceptShot == <<discoveryVars, sshVars, rsyncVars, pollVars, keyVars, locateVars, rgpVars, gameVars>>

\* the variables an action of _obtain_trace leaves alone
exceptTrace == <<discoveryVars, sshVars, rsyncVars, shotVars, session, keyVars, locateVars, rgpVars, gameVars>>

\* the variables an action of set_session leaves alone
exceptSession == <<discoveryVars, sshVars, rsyncVars, shotVars, trace, keyVars, locateVars, rgpVars, gameVars>>

\* the variables an action of ensure_devkit_key leaves alone
exceptKey == <<discoveryVars, sshVars, rsyncVars, shotVars, pollVars, locateVars, rgpVars, gameVars>>

\* the variables an action of locate_cygwin_tools leaves alone
exceptLocate == <<discoveryVars, sshVars, rsyncVars, shotVars, pollVars, keyVars, rgpVars, gameVars>>

\* the variables an action of rgp_capture leaves alone
exceptRgp == <<discoveryVars, sshVars, rsyncVars, shotVars, pollVars, keyVars, locateVars, gameVars>>

\* the variables an action of save_game_details leaves alone
exceptGame == <<discoveryVars, sshVars, rsyncVars, shotVars, pollVars, keyVars, locateVars, rgpVars>>

----------------------------------------------------------------------------
(* Bounds of the model *)

\* the number of listener callbacks of one behaviour
MaxCallbacks == 2

\* the number of suffix segments appended to a base name
MaxSegs == 3

----------------------------------------------------------------------------
(* Optional values *)

None == <<>>

Some(x) == <<x>>

IsNone(o) == o = <<>>

Val(o) == o[1]

----------------------------------------------------------------------------
(* Text *)

UPPER == <<"A","B","C","D","E","F","G","H","I","J","K","L","M",
           "N","O","P","Q","R","S","T","U","V","W","X","Y","Z">>

LOWER == <<"a","b","c","d","e","f","g","h","i","j","k","l","m",
           "n","o","p","q","r","s","t","u","v","w","x","y","z">>

\* the combining acute accent U+0301, and U+00E9 (e with acute)
COMBINING_ACUTE == "U+0301"

E_ACUTE == "U+00E9"

STEAMOS_DEVKIT_SERVICE ==
    <<"_","s","t","e","a","m","o","s","-","d","e","v","k","i","t",
      ".","_","t","c","p">>

LOCAL_DOMAIN == <<"l","o","c","a","l">>

Dot == <<".">>

STEAM_DEVKIT_TYPE == STEAMOS_DEVKIT_SERVICE \o Dot \o LOCAL_DOMAIN \o Dot

DEFAULT_DEVKIT_SERVICE_HTTP == 32000

\* b'1'
CURRENT_TXTVERS == <<49>>

\* str.endswith
EndsWith(s, suffix) ==
    /\ Len(suffix) <= Len(s)
    /\ SubSeq(s, Len(s) - Len(suffix) + 1, Len(s)) = suffix

\* s[:-len(suffix)]
DropSuffix(s, suffix) == SubSeq(s, 1, Len(s) - Len(suffix))

\* str.rstrip('.')
RECURSIVE RStripDot(_)
RStripDot(s) ==
    IF Len(s) > 0 /\ s[Len(s)] = "."
    THEN RStripDot(SubSeq(s, 1, Len(s) - 1))
    ELSE s

\* '.' in s
HasDot(s) == \E i \in 1..Len(s) : s[i] = "."

UpperSet == {UPPER[i] : i \in 1..26}

\* one character through the ASCII_LOWERCASE table
LowerChar(c) ==
    IF c \in UpperSet
    THEN LOWER[CHOOSE i \in 1..26 : UPPER[i] = c]
    ELSE c

\* a translation that folds nothing
NoCaseFold(s) == s

\* str.translate(ASCII_LOWERCASE)
ASCII_LOWERCASE(s) == [i \in 1..Len(s) |-> LowerChar(s[i])]

\* unicodedata.normalize('NFC', s), for the characters of the model:
\* e followed by the combining acute accent composes to U+00E9
RECURSIVE NFC(_)
NFC(s) ==
    IF Len(s) = 0 THEN s
    ELSE IF Len(s) >= 2 /\ s[1] = "e" /\ s[2] = COMBINING_ACUTE
    THEN <<E_ACUTE>> \o NFC(SubSeq(s, 3, Len(s)))
    ELSE <<s[1]>> \o NFC(SubSeq(s, 2, Len(s)))

\* bytes.decode('utf-8'), for the ASCII bytes of the model: blank, newline,
\* hyphen, digits and letters
DIGITS == <<"0","1","2","3","4","5","6","7","8","9">>

DecodeByte(b) ==
    CASE b = 32 -> " "
      [] b = 10 -> "\n"
      [] b = 45 -> "-"
      [] b \in 48..57 -> DIGITS[b - 47]
      [] b \in 65..90 -> UPPER[b - 64]
      [] b \in 97..122 -> LOWER[b - 96]

Decode(bytes) == [i \in 1..Len(bytes) |-> DecodeByte(bytes[i])]

\* shlex.split, for text without quotes or escapes: the words between blanks
RECURSIVE ShlexWords(_, _, _)
ShlexWords(s, word, acc) ==
    IF Len(s) = 0
    THEN IF Len(word) > 0 THEN Append(acc, word) ELSE acc
    ELSE IF s[1] = " "
    THEN ShlexWords(Tail(s), <<>>,
                    IF Len(word) > 0 THEN Append(acc, word) ELSE acc)
    ELSE ShlexWords(Tail(s), Append(word, s[1]), acc)

ShlexSplit(s) == ShlexWords(s, <<>>, <<>>)

\* socket.inet_ntoa: four bytes to dotted-quad text
InetNtoa(packed) ==
    <<ToString(packed[1]), ".", ToString(packed[2]), ".",
      ToString(packed[3]), ".", ToString(packed[4])>>

----------------------------------------------------------------------------
(* Discovery records (zeroconf ServiceInfo) *)

\* json.loads, for the documents of the model; any other text is not JSON.
\* b'{}' and b'{"a":1}'; an object is the set of its <<key, value>> pairs
JSON_EMPTY == <<123, 125>>

JSON_A1 == <<123, 34, 97, 34, 58, 49, 125>>

JsonValid(text) == text \in {JSON_EMPTY, JSON_A1}

JsonLoads(text) ==
    CASE text = JSON_EMPTY -> {}
      [] text = JSON_A1 -> {<<"a", 1>>}

\* info.properties is a dict of bytes to bytes: the set of its items
HasKey(prop, key) == \E item \in prop : item[1] = key

\* dict.get(key): None when the key is absent
Get(prop, key) ==
    IF HasKey(prop, key)
    THEN Some((CHOOSE item \in prop : item[1] = key)[2])
    ELSE None

\* b'deck', b'dk -x', b'2'
BYTES_DECK == <<100, 101, 99, 107>>

BYTES_DK_X == <<100, 107, 32, 45, 120>>

BYTES_2 == <<50>>

PropsV1 == {<<"txtvers", CURRENT_TXTVERS>>, <<"login", BYTES_DECK>>,
            <<"devkit1", BYTES_DK_X>>, <<"settings", JSON_A1>>}

PropsV2 == {<<"txtvers", BYTES_2>>, <<"login", BYTES_DECK>>,
            <<"devkit1", BYTES_DK_X>>, <<"settings", JSON_A1>>}

InfoV1 == [addresses |-> << <<10, 0, 0, 1>> >>, port |-> 32000,
           properties |-> PropsV1]

InfoV2 == [addresses |-> << <<10, 0, 0, 2>> >>, port |-> 32002,
           properties |-> PropsV2]

InfoPlain == [addresses |-> << <<10, 0, 0, 3>> >>, port |-> 32003,
              properties |-> {}]

InfoNoAddr == [addresses |-> <<>>, port |-> 32000,
               properties |-> {<<"txtvers", CURRENT_TXTVERS>>}]

\* b'{'
JSON_TRUNCATED == <<123>>

InfoBadJson == [addresses |-> << <<10, 0, 0, 4>> >>, port |-> 32000,
                properties |-> {<<"settings", JSON_TRUNCATED>>}]

\* what zc.get_service_info can answer: None (timeout) or a record
Answers == {None, Some(InfoV1), Some(InfoV2), Some(InfoPlain),
            Some(InfoNoAddr)}

----------------------------------------------------------------------------
(* Machine *)

Machine(name, devkit1, login, http_port) ==
    [address |-> name, name |-> name, normalized_name |-> name,
     login |-> login, devkit1 |-> devkit1, settings |-> {},
     http_port |-> http_port]

----------------------------------------------------------------------------
(* ServiceListener: the callbacks of the zeroconf thread *)

Foo == <<"f", "o", "o">>

Bar == <<"b", "a", "r">>

ServiceNames == {Foo, Bar}

\* the instance name zeroconf hands to a callback
InstanceName(service_name) == service_name \o Dot \o STEAM_DEVKIT_TYPE

\* name[:-len('.' + type)]
ServiceName(name) == DropSuffix(name, Dot \o STEAM_DEVKIT_TYPE)

\* a put that jumps the queue
PutAtHead(q, item) == <<item>> \o q

\* queue.Queue.put: at the tail
Put(q, item) == Append(q, item)

\* dict item assignment and deletion
SetItem(dk, key, value) ==
    [k \in DOMAIN dk \cup {key} |-> IF k = key THEN value ELSE dk[k]]

DelItem(dk, key) == [k \in DOMAIN dk \ {key} |-> dk[k]]

\* add_service's test of the TXT record's format version
Incompatible(prop) ==
    /\ prop # {}
    /\ HasKey(prop, "txtvers")
    /\ Val(Get(prop, "txtvers")) # CURRENT_TXTVERS

\* add_service without its test for a known name
EventKindAlwaysAdd(dk, service_name) == "add"

\* the event add_service reports for a record it stores
EventKind(dk, service_name) ==
    IF service_name \in DOMAIN dk THEN "update" ELSE "add"

\* add_service that stores the record and reports nothing
add_service_unreported(dk, q, name, answer) ==
    IF IsNone(answer) THEN [devkits |-> dk, devkit_events |-> q]
    ELSE [devkits |-> SetItem(dk, DropSuffix(name, Dot \o STEAM_DEVKIT_TYPE), Val(answer)), devkit_events |-> q]

\* add_service: the map and the queue it leaves.  answer is what
\* zc.get_service_info returned.  Logging the address of a record that
\* has none raises IndexError before anything is stored.
add_service(dk, q, name, answer) ==
    LET service_name == ServiceName(name)
        same == [devkits |-> dk, devkit_events |-> q]
    IN  IF IsNone(answer) THEN same
        ELSE IF Len(Val(answer).addresses) = 0 THEN same
        ELSE IF Incompatible(Val(answer).properties) THEN same
        ELSE [devkits |-> SetItem(dk, service_name, Val(answer)),
              devkit_events |->
                  Put(q, <<EventKind(dk, service_name), service_name>>)]

\* remove_service that reports the removal and keeps the entry
remove_service_keeps_entry(dk, q, name) ==
    LET service_name == DropSuffix(name, Dot \o STEAM_DEVKIT_TYPE)
    IN  IF service_name \notin DOMAIN dk
        THEN [devkits |-> dk, devkit_events |-> q]
        ELSE [devkits |-> dk,
              devkit_events |-> Append(q, <<"del", service_name>>)]

\* remove_service: the map and the queue it leaves
remove_service(dk, q, name) ==
    LET service_name == ServiceName(name)
    IN  IF service_name \notin DOMAIN dk
        THEN [devkits |-> dk, devkit_events |-> q]
        ELSE [devkits |-> DelItem(dk, service_name),
              devkit_events |-> Put(q, <<"del", service_name>>)]

\* how often item e occurs in queue q
Count(q, e) == Cardinality({i \in 1..Len(q) : q[i] = e})

\* history: the items a callback put, whatever their place in the queue
Added(before, after) ==
    IF Len(after) <= Len(before) THEN <<>>
    ELSE <<CHOOSE e \in {after[i] : i \in 1..Len(after)} :
               Count(after, e) > Count(before, e)>>

Idle == lookup.pc = "idle" /\ call.pc = "idle"

\* history: whether a callback's query returned a record of a supported
\* format version (no txtvers, or the current one) that has an address
Supported(info) ==
    \A item \in info.properties :
        item[1] = "txtvers" => item[2] = CURRENT_TXTVERS

Obtained(answer) ==
    /\ ~IsNone(answer)
    /\ Len(Val(answer).addresses) > 0
    /\ Supported(Val(answer))

\* a callback that puts its event before it changes the map
PutThenMap(dk, q, after) ==
    IF after.devkit_events = q THEN <<[devkits |-> dk, devkit_events |-> q]>>
    ELSE <<[devkits |-> dk, devkit_events |-> q], [devkits |-> dk, devkit_events |-> after.devkit_events], after>>

\* history: the states a callback goes through, in statement order: the
\* one it starts in, and for a callback that stores or deletes, the one
\* after the assignment to (or del of) self.devkits[service_name] and the
\* one after the devkit_events.put that follows it
MapThenPut(dk, q, after) ==
    IF after.devkit_events = q THEN <<[devkits |-> dk, devkit_events |-> q]>>
    ELSE <<[devkits |-> dk, devkit_events |-> q], [devkits |-> after.devkits, devkit_events |-> q], after>>

Callback(op, service_name, answer, after) ==
    /\ g_zeroconf_listener = "listener"
    /\ Len(callbacks) < MaxCallbacks
    /\ lookup.pc # "done" /\ call.pc = "idle"
    /\ devkits' = after.devkits
    /\ devkit_events' = after.devkit_events
    /\ callbacks' = Append(callbacks,
           [op |-> op, name |-> service_name, ok |-> Obtained(answer),
            had |-> service_name \in DOMAIN devkits,
            has |-> service_name \in DOMAIN after.devkits,
            put |-> Added(devkit_events, after.devkit_events),
            steps |-> MapThenPut(devkits, devkit_events, after)])
    /\ UNCHANGED <<g_zeroconf_listener, dequeued, lookup, call, toolVars>>

AddService ==
    \E sn \in ServiceNames, answer \in Answers :
        Callback("add_service", sn, answer,
                 add_service(devkits, devkit_events, InstanceName(sn), answer))

UpdateService ==
    \E sn \in ServiceNames, answer \in Answers :
        Callback("update_service", sn, answer,
                 add_service(devkits, devkit_events, InstanceName(sn), answer))

RemoveService ==
    \E sn \in ServiceNames :
        Callback("remove_service", sn, None,
                 remove_service(devkits, devkit_events, InstanceName(sn)))

\* a consumer of devkit_events: queue.Queue.get takes the oldest event
GetEvent ==
    /\ Idle
    /\ Len(devkit_events) > 0
    /\ dequeued' = Append(dequeued, Head(devkit_events))
    /\ devkit_events' = Tail(devkit_events)
    /\ UNCHANGED <<g_zeroconf_listener, devkits, callbacks, lookup, call, toolVars>>

----------------------------------------------------------------------------
(* ServiceListener: the lookups of the reader threads *)

\* the timeout of the query of update_service_info, in milliseconds
ZEROCONF_TIMEOUT == 10000

\* a lookup that ends without MachineNotFoundError whatever it obtained
FillMachineNeverMissing(machine, info) == [status |-> "ok", machine |-> machine]

\* a lookup that keeps the record it obtained in the map
DevkitsWithObtained(dk, name, info) == IF IsNone(info) THEN dk ELSE SetItem(dk, name, Val(info))

\* self.devkits as address_for_service, port_for_service and
\* update_service_info leave it: they read the map and assign nothing to
\* it, whether info is the cached record or the answer of the query
DevkitsAfterLookup(dk, name, info) == dk

\* the part of update_service_info after info was obtained.  info is
\* None or a record; the result is how the call ends, the machine as the
\* call leaves it.
FillMachine(machine, info) ==
    IF IsNone(info)
    THEN [status |-> "MachineNotFoundError", machine |-> machine]
    ELSE IF Len(Val(info).addresses) <= 0
    THEN [status |-> "MachineNotFoundError", machine |-> machine]
    ELSE
    LET prop == Val(info).properties
        m1 == [machine EXCEPT !.address = InetNtoa(Val(info).addresses[1])]
        settings == Get(prop, "settings")
        login == Get(prop, "login")
        devkit1 == Get(prop, "devkit1")
        m2 == IF prop # {} /\ ~IsNone(settings)
              THEN [m1 EXCEPT !.settings = JsonLoads(Val(settings))]
              ELSE m1
        m3 == IF prop # {} /\ IsNone(m2.login) /\ ~IsNone(login)
              THEN [m2 EXCEPT !.login = Some(Decode(Val(login)))]
              ELSE m2
        m4 == IF prop # {} /\ IsNone(m2.login) /\ ~IsNone(devkit1)
              THEN [m3 EXCEPT !.devkit1 = ShlexSplit(Decode(Val(devkit1)))]
              ELSE m3
    IN  IF prop # {} /\ ~IsNone(settings) /\ ~JsonValid(Val(settings))
        THEN [status |-> "JSONDecodeError", machine |-> m1]
        ELSE [status |-> "ok",
              machine |-> [m4 EXCEPT !.normalized_name =
                  NFC(RStripDot(ASCII_LOWERCASE(machine.name)))]]

\* update_service_info, run without interruption: the cached record when
\* machine.name is a key of the map, else the answer of one query
update_service_info(machine, dk, answer) ==
    LET cached == machine.name \in DOMAIN dk
        info == IF cached THEN Some(dk[machine.name]) ELSE answer
        r == FillMachine(machine, info)
    IN  [status |-> r.status, machine |-> r.machine, info |-> info,
         queries |-> IF cached THEN 0 ELSE 1]

NoLookup ==
    [pc |-> "idle", op |-> "none", name |-> <<>>,
     caller |-> Machine(<<>>, <<>>, None, DEFAULT_DEVKIT_SERVICE_HTTP),
     found |-> FALSE, info |-> None, status |-> "none",
     address |-> None, port |-> 0,
     machine |-> Machine(<<>>, <<>>, None, DEFAULT_DEVKIT_SERVICE_HTTP),
     queries |-> 0, timeout |-> 0]

\* the logins and entry points a caller passes
CallerLogin == <<"m", "e">>

CallerDevkit1 == << <<"e", "p">> >>

Logins == {None, Some(CallerLogin)}

Devkit1s == {<<>>, CallerDevkit1}

\* first step of each lookup: the test "name in self.devkits"
LookupCheck ==
    /\ Idle
    /\ g_zeroconf_listener = "listener"
    /\ \E op \in {"address_for_service", "port_for_service",
                  "update_service_info"},
          name \in ServiceNames, login \in Logins, devkit1 \in Devkit1s :
          /\ op # "update_service_info" => IsNone(login) /\ devkit1 = <<>>
          /\ lookup' = [NoLookup EXCEPT
                 !.pc = "checked", !.op = op, !.name = name,
                 !.caller = Machine(name, devkit1, login,
                                    DEFAULT_DEVKIT_SERVICE_HTTP),
                 !.machine = Machine(name, devkit1, login,
                                     DEFAULT_DEVKIT_SERVICE_HTTP),
                 !.found = name \in DOMAIN devkits]
    /\ UNCHANGED <<listenerVars, call, toolVars>>

\* second step: "info = self.devkits[name]", a KeyError when the listener
\* thread removed the name since the test
AddressForService ==
    /\ lookup.pc = "checked" /\ lookup.op = "address_for_service"
    /\ lookup' =
         IF ~lookup.found
         THEN [lookup EXCEPT !.pc = "done", !.status = "ok"]
         ELSE IF lookup.name \notin DOMAIN devkits
         THEN [lookup EXCEPT !.pc = "done", !.status = "KeyError"]
         ELSE [lookup EXCEPT !.pc = "done", !.status = "ok",
                  !.info = Some(devkits[lookup.name]),
                  !.address =
                      Some(InetNtoa(devkits[lookup.name].addresses[1]))]
    /\ devkits' = DevkitsAfterLookup(devkits, lookup.name, lookup'.info)
    /\ UNCHANGED <<g_zeroconf_listener, devkit_events, callbacks, dequeued, call, toolVars>>

PortForService ==
    /\ lookup.pc = "checked" /\ lookup.op = "port_for_service"
    /\ lookup' =
         IF ~lookup.found
         THEN [lookup EXCEPT !.pc = "done", !.status = "ok",
                  !.port = DEFAULT_DEVKIT_SERVICE_HTTP]
         ELSE IF lookup.name \notin DOMAIN devkits
         THEN [lookup EXCEPT !.pc = "done", !.status = "KeyError"]
         ELSE [lookup EXCEPT !.pc = "done", !.status = "ok",
                  !.info = Some(devkits[lookup.name]),
                  !.port = devkits[lookup.name].port]
    /\ devkits' = DevkitsAfterLookup(devkits, lookup.name, lookup'.info)
    /\ UNCHANGED <<g_zeroconf_listener, devkit_events, callbacks, dequeued, call, toolVars>>

UpdateServiceInfo ==
    /\ lookup.pc = "checked" /\ lookup.op = "update_service_info"
    /\ \E answer \in Answers :
         /\ lookup.found => IsNone(answer)
         /\ lookup' =
              IF lookup.found /\ lookup.name \notin DOMAIN devkits
              THEN [lookup EXCEPT !.pc = "done", !.status = "KeyError"]
              ELSE LET info == IF lookup.found
                               THEN Some(devkits[lookup.name])
                               ELSE answer
                       r == FillMachine(lookup.caller, info)
                   IN  [lookup EXCEPT !.pc = "done", !.status = r.status,
                           !.info = info, !.machine = r.machine,
                           !.queries = IF lookup.found THEN 0 ELSE 1,
                           !.timeout = IF lookup.found THEN 0 ELSE ZEROCONF_TIMEOUT]
    /\ devkits' = DevkitsAfterLookup(devkits, lookup.name, lookup'.info)
    /\ UNCHANGED <<g_zeroconf_listener, devkit_events, callbacks, dequeued, call, toolVars>>

\* the lookup returned (or raised) to its caller
LookupReturn ==
    /\ lookup.pc = "done"
    /\ lookup' = NoLookup
    /\ UNCHANGED <<listenerVars, call, toolVars>>

----------------------------------------------------------------------------
(* resolve_machine *)

\* the rewrites with the service type stripped before the domain
StripServiceTypeFirst(name) ==
    LET n1 == RStripDot(name)
        n2 == IF EndsWith(n1, Dot \o STEAMOS_DEVKIT_SERVICE)
              THEN DropSuffix(n1, Dot \o STEAMOS_DEVKIT_SERVICE) ELSE n1
    IN  IF EndsWith(n2, Dot \o LOCAL_DOMAIN)
        THEN DropSuffix(n2, Dot \o LOCAL_DOMAIN) ELSE n2

\* the three rewrites of the SERVICE_NAME branch, in the code's order
StripServiceName(name) ==
    LET n1 == RStripDot(name)
        n2 == IF EndsWith(n1, Dot \o LOCAL_DOMAIN)
              THEN DropSuffix(n1, Dot \o LOCAL_DOMAIN) ELSE n1
    IN  IF EndsWith(n2, Dot \o STEAMOS_DEVKIT_SERVICE)
        THEN DropSuffix(n2, Dot \o STEAMOS_DEVKIT_SERVICE) ELSE n2

\* the tuple of suffixes the GUESS branch hands to str.endswith
ServiceSuffixes ==
    {Dot \o STEAM_DEVKIT_TYPE,
     Dot \o STEAMOS_DEVKIT_SERVICE \o Dot \o LOCAL_DOMAIN,
     Dot \o STEAMOS_DEVKIT_SERVICE \o Dot,
     Dot \o STEAMOS_DEVKIT_SERVICE}

IsServiceForm(name) == \E suffix \in ServiceSuffixes : EndsWith(name, suffix)

\* str.strip(): blanks and newlines off both ends
RECURSIVE Strip(_)
Strip(s) ==
    IF Len(s) > 0 /\ s[1] \in {" ", "\n"} THEN Strip(Tail(s))
    ELSE IF Len(s) > 0 /\ s[Len(s)] \in {" ", "\n"}
    THEN Strip(SubSeq(s, 1, Len(s) - 1))
    ELSE s

\* the bodies the devkit's HTTP service can send; a JSON object is the set
\* of its <<key, value>> pairs, JSON text inside it its sequence of code
\* points, a devkit1 value a str or a list of str
HttpLogin == <<"h", "l">>

HttpEntry == <<"h", "e">>

PropsFull == {<<"settings", JSON_EMPTY>>,
              <<"devkit1", [type |-> "list", value |-> <<HttpEntry>>]>>,
              <<"login", HttpLogin>>}

PropsDevkit1Str == {<<"devkit1", [type |-> "str", value |-> HttpEntry]>>}

\* b'hl\n'
LoginNameBody == <<104, 108, 10>>

\* the part of resolve_machine after the name was interpreted: the two
\* optional HTTP requests.  env.props and env.login_name are what the two
\* requests meet: "error" is socket.error (URLError and HTTPError included)
\* raised by urlopen, which both try blocks catch; "read_error" is
\* socket.error (a timeout, a reset connection) raised while the body is
\* read, which is done in the else clauses, outside the try blocks; else
\* the body.
Complete(machine, need_login, need_devkit1, env) ==
    LET ask1 == (IsNone(machine.login) \/ machine.devkit1 = <<>>)
                /\ (need_login \/ need_devkit1)
        obj == IF ask1 /\ env.props.kind = "body" THEN env.props.body ELSE {}
        settings == Get(obj, "settings")
        devkit1 == Get(obj, "devkit1")
        login == Get(obj, "login")
        m1 == IF ~IsNone(settings)
              THEN [machine EXCEPT !.settings = JsonLoads(Val(settings))]
              ELSE machine
        m2 == IF ~IsNone(devkit1)
              THEN [m1 EXCEPT !.devkit1 =
                       IF Val(devkit1).type = "str"
                       THEN <<Val(devkit1).value>>
                       ELSE Val(devkit1).value]
              ELSE m1
        m3 == IF ~IsNone(login)
              THEN [m2 EXCEPT !.login = Some(Val(login))]
              ELSE m2
        ask2 == IsNone(m3.login) /\ need_login
        m4 == IF ask2 /\ env.login_name.kind = "body"
              THEN [m3 EXCEPT !.login =
                       Some(Strip(Decode(env.login_name.body)))]
              ELSE m3
        asked1 == IF ask1 THEN << <<"/properties.json", machine.address>> >>
                          ELSE <<>>
    IN  IF ask1 /\ env.props.kind = "read_error"
        THEN [status |-> "OSError", machine |-> machine, requests |-> asked1]
        ELSE [status |-> IF ask2 /\ env.login_name.kind = "read_error"
                         THEN "OSError" ELSE "ok",
              machine |-> m4,
              requests |->
                  asked1 \o (IF ask2 THEN << <<"/login-name", machine.address>> >>
                                     ELSE <<>>)]

\* resolve_machine for name_type SERVICE_NAME or ADDRESS.  The outcome:
\* how the call ended, the machine returned, the name attribute of a
\* MachineNotFoundError raised, the interpretations tried, the
\* update_service_info calls made, and the HTTP requests issued.
resolve_direct(name, devkit1, login, need_login, need_devkit1, name_type, http_port, env) ==
    LET machine == Machine(name, devkit1, login, http_port)
    IN  IF name_type = "SERVICE_NAME"
        THEN
          LET m1 == [machine EXCEPT !.name = StripServiceName(name)]
              r == update_service_info(m1, env.devkits, env.answer)
          IN  IF env.listener = "None"
              THEN [status |-> "MachineNotFoundError", machine |-> m1,
                    error_name |-> None,
                    interp |-> <<"SERVICE_NAME">>, lookups |-> 0,
                    requests |-> <<>>]
              ELSE IF r.status # "ok"
              THEN [status |-> r.status, machine |-> r.machine,
                    error_name |-> IF r.status = "MachineNotFoundError"
                                   THEN Some(m1.name) ELSE None,
                    interp |-> <<"SERVICE_NAME">>, lookups |-> 1,
                    requests |-> <<>>]
              ELSE LET c == Complete(r.machine, need_login, need_devkit1, env)
                   IN  [status |-> c.status, machine |-> c.machine,
                        error_name |-> None,
                        interp |-> <<"SERVICE_NAME">>, lookups |-> 1,
                        requests |-> c.requests]
        ELSE
          LET m1 == [machine EXCEPT !.normalized_name =
                        RStripDot(ASCII_LOWERCASE(machine.name))]
              c == Complete(m1, need_login, need_devkit1, env)
          IN  [status |-> c.status, machine |-> c.machine,
               error_name |-> None,
               interp |-> <<"ADDRESS">>, lookups |-> 0,
               requests |-> c.requests]

\* resolve_machine whose GUESS branch falls back on any failure of the
\* SERVICE_NAME attempt
resolve_machine_catch_all(name, devkit1, login, need_login, need_devkit1, name_type, http_port, env) ==
    IF name_type # "GUESS"
    THEN resolve_direct(name, devkit1, login, need_login, need_devkit1,
                        name_type, http_port, env)
    ELSE IF IsServiceForm(name)
    THEN resolve_direct(name, devkit1, login, need_login, need_devkit1,
                        "SERVICE_NAME", http_port, env)
    ELSE IF HasDot(name)
    THEN resolve_direct(name, devkit1, login, need_login, need_devkit1,
                        "ADDRESS", http_port, env)
    ELSE
      LET r == resolve_direct(name, devkit1, login, need_login, need_devkit1,
                              "SERVICE_NAME", http_port, env)
          c == Complete(Machine(name, devkit1, login, http_port),
                        need_login, need_devkit1, env)
      IN  IF r.status # "ok"
          THEN [status |-> c.status, machine |-> c.machine,
                error_name |-> None,
                interp |-> r.interp \o <<"fallback">>,
                lookups |-> r.lookups, requests |-> c.requests]
          ELSE r

\* resolve_machine whose GUESS branch falls back for every name whose
\* SERVICE_NAME attempt raised MachineNotFoundError
resolve_machine_fallback_always(name, devkit1, login, need_login, need_devkit1, name_type, http_port, env) ==
    IF name_type # "GUESS"
    THEN resolve_direct(name, devkit1, login, need_login, need_devkit1,
                        name_type, http_port, env)
    ELSE
      LET r == resolve_direct(name, devkit1, login, need_login, need_devkit1,
                              "SERVICE_NAME", http_port, env)
          c == Complete(Machine(name, devkit1, login, http_port),
                        need_login, need_devkit1, env)
      IN  IF r.status = "MachineNotFoundError"
          THEN [status |-> c.status, machine |-> c.machine,
                error_name |-> None,
                interp |-> r.interp \o <<"fallback">>,
                lookups |-> r.lookups, requests |-> c.requests]
          ELSE r

\* resolve_machine, the GUESS branch included
resolve_machine(name, devkit1, login, need_login, need_devkit1, name_type, http_port, env) ==
    IF name_type # "GUESS"
    THEN resolve_direct(name, devkit1, login, need_login, need_devkit1,
                        name_type, http_port, env)
    ELSE IF IsServiceForm(name)
    THEN resolve_direct(name, devkit1, login, need_login, need_devkit1,
                        "SERVICE_NAME", http_port, env)
    ELSE IF HasDot(name)
    THEN resolve_direct(name, devkit1, login, need_login, need_devkit1,
                        "ADDRESS", http_port, env)
    ELSE
      LET r == resolve_direct(name, devkit1, login, need_login, need_devkit1,
                              "SERVICE_NAME", http_port, env)
          c == Complete(Machine(name, devkit1, login, http_port),
                        need_login, need_devkit1, env)
      IN  IF r.status = "MachineNotFoundError"
          THEN [status |-> c.status, machine |-> c.machine,
                error_name |-> None,
                interp |-> r.interp \o <<"fallback">>,
                lookups |-> r.lookups, requests |-> c.requests]
          ELSE r

----------------------------------------------------------------------------
(* The callers of resolve_machine *)

Env(listener, dk, answer, props, login_name) ==
    [listener |-> listener, devkits |-> dk, answer |-> answer,
     props |-> props, login_name |-> login_name]

NoBody == [kind |-> "error", body |-> {}]

NoCall ==
    [pc |-> "idle", name |-> <<>>, devkit1 |-> <<>>, login |-> None,
     need_login |-> FALSE, need_devkit1 |-> FALSE, name_type |-> "GUESS",
     http_port |-> DEFAULT_DEVKIT_SERVICE_HTTP,
     env |-> Env("None", <<>>, None, NoBody, [kind |-> "error", body |-> <<>>]),
     result |-> [status |-> "none",
                 machine |-> Machine(<<>>, <<>>, None,
                                     DEFAULT_DEVKIT_SERVICE_HTTP),
                 error_name |-> None,
                 interp |-> <<>>, lookups |-> 0, requests |-> <<>>]]

\* the names a user types: a base name followed by up to MaxSegs of the
\* optional suffix segments, and some names in other spellings
Segments == {Dot, Dot \o LOCAL_DOMAIN, Dot \o STEAMOS_DEVKIT_SERVICE}

RECURSIVE SegNames(_, _)
SegNames(base, k) ==
    IF k = 0 THEN {base}
    ELSE LET shorter == SegNames(base, k - 1)
         IN  shorter \cup {n \o seg : n \in shorter, seg \in Segments}

FooLocalDot == <<"F", "o", "o", ".", "l", "o", "c", "a", "l", ".">>

FOO == <<"F", "O", "O">>

FooUpperLocal == <<"f", "o", "o", ".", "L", "O", "C", "A", "L">>

FeDecomposed == <<"f", "e", COMBINING_ACUTE>>

ResolveNames ==
    SegNames(Foo, MaxSegs)
        \cup {<<>>, FooLocalDot, FOO, FooUpperLocal, FeDecomposed}

NameTypes == {"GUESS", "ADDRESS", "SERVICE_NAME"}

ResolveAnswers == {None, Some(InfoV1), Some(InfoNoAddr), Some(InfoBadJson)}

PropsResponses ==
    {NoBody, [kind |-> "read_error", body |-> {}],
     [kind |-> "body", body |-> PropsFull],
     [kind |-> "body", body |-> PropsDevkit1Str]}

LoginNameResponses ==
    {[kind |-> "error", body |-> <<>>],
     [kind |-> "read_error", body |-> <<>>],
     [kind |-> "body", body |-> LoginNameBody]}

ResolveCall ==
    /\ Idle
    /\ \E name \in ResolveNames, devkit1 \in Devkit1s, login \in Logins,
          need_login \in BOOLEAN, need_devkit1 \in BOOLEAN,
          name_type \in NameTypes, answer \in ResolveAnswers,
          props \in PropsResponses, login_name \in LoginNameResponses :
          LET env == Env(g_zeroconf_listener, devkits, answer, props,
                         login_name)
          IN  call' = [pc |-> "returned", name |-> name,
                       devkit1 |-> devkit1, login |-> login,
                       need_login |-> need_login,
                       need_devkit1 |-> need_devkit1,
                       name_type |-> name_type,
                       http_port |-> DEFAULT_DEVKIT_SERVICE_HTTP,
                       env |-> env,
                       result |-> resolve_machine(name, devkit1, login,
                           need_login, need_devkit1, name_type,
                           DEFAULT_DEVKIT_SERVICE_HTTP, env)]
    /\ UNCHANGED <<listenerVars, lookup, toolVars>>

ResolveReturn ==
    /\ call.pc = "returned"
    /\ call' = NoCall
    /\ UNCHANGED <<listenerVars, lookup, toolVars>>

----------------------------------------------------------------------------
(* DevkitClient.ssh_command and its two drain workers *)

\* the number of ssh_command calls of one behaviour
MaxCalls == 2

\* what a remote command writes to stdout: {"x":1}, {"y":2}, the text ok,
\* and one byte that no UTF-8 text holds
STDOUT_X1 == <<123, 34, 120, 34, 58, 49, 125>>

STDOUT_Y2 == <<123, 34, 121, 34, 58, 50, 125>>

STDOUT_TEXT == <<111, 107>>

STDOUT_NOT_UTF8 == <<255>>

Stdouts == {STDOUT_X1, STDOUT_Y2, STDOUT_TEXT, STDOUT_NOT_UTF8}

ExitStatuses == {0, 7}

\* the stdindata of a call: None, or some bytes
STDIN_DATA == <<112, 119>>

\* whether str(bytes, 'utf-8') succeeds, for ASCII bytes and bytes from
\* 0xF8 up, which start no UTF-8 sequence
Utf8Valid(bytes) == \A i \in 1..Len(bytes) : bytes[i] < 128

\* json.loads of a str of ASCII code points: the empty object, or an
\* object of one lowercase one-letter key and a one-digit number
IsObject1(text) ==
    /\ Len(text) = 7
    /\ text[1] = 123 /\ text[2] = 34 /\ text[3] \in 97..122 /\ text[4] = 34
    /\ text[5] = 58 /\ text[6] \in 48..57 /\ text[7] = 125

json_loads(text) ==
    IF text = <<123, 125>> THEN [ok |-> TRUE, value |-> {}]
    ELSE IF IsObject1(text)
         THEN [ok |-> TRUE, value |-> {<<LOWER[text[3] - 96], text[6] - 48>>}]
         ELSE [ok |-> FALSE, value |-> {}]

\* a value of ssh_result: a parsed document, or the exception of the parse
JsonValue(v) == [exc |-> "", value |-> v]

JsonError == [exc |-> "JSONDecodeError", value |-> {}]

IsException(r) == r.exc # ""

\* the stdout worker of JSON mode.  The result is the new ssh_result: the
\* decoding is outside the try block, so that bytes that are not UTF-8 end
\* the thread with ssh_result as it was
machine_readable_command_reader_thread(result, command_stdout) ==
    IF ~Utf8Valid(command_stdout) THEN result
    ELSE LET parsed == json_loads(command_stdout)
         IN  IF parsed.ok THEN JsonValue(parsed.value) ELSE JsonError

\* the outcomes of a call
Returns(v) == [kind |-> "return", value |-> v, returncode |-> 0, cmd |-> None]

Raises(kind) == [kind |-> kind, value |-> None, returncode |-> 0, cmd |-> None]

CalledProcessError(returncode, cmd) == [kind |-> "CalledProcessError", value |-> None, returncode |-> returncode, cmd |-> Some(cmd)]

NoOutcome == [kind |-> "", value |-> None, returncode |-> 0, cmd |-> None]

\* ssh_command from the two joins on: json_or_exception is ssh_result as
\* the calling thread reads it there
ssh_command_tail(c, json_or_exception) ==
    IF c.stream_output_to THEN Returns(None)
    ELSE IF Val(c.exit_status) # 0
         THEN CalledProcessError(Val(c.exit_status), c.command)
         ELSE IF IsException(json_or_exception)
              THEN Raises(json_or_exception.exc)
              ELSE Returns(Some(json_or_exception.value))

Finished(c) == c.pc \in {"returned", "raised"}

\* the call begins: the session is open and exec_command has sent the
\* command.  closed: the remote command ends without reading its input,
\* and the channel is closed by the time stdin is written
\* ssh_command that writes stdin before it starts its workers
ssh_command_steps_stdin_first == <<"write_stdin", "start_threads", "recv_exit_status", "join", "joined">>

\* the steps of ssh_command up to its joins, in the order of its statements
ssh_command_steps == <<"start_threads", "write_stdin", "recv_exit_status", "join", "joined">>

\* the step after step pc
After(pc) == ssh_command_steps[(CHOOSE k \in 1..Len(ssh_command_steps) : ssh_command_steps[k] = pc) + 1]

\* remote.fills: the command writes more to stdout and stderr than the
\* channel buffers before it reads its input to the end, and exits then.
\* Its input is taken, and the write of stdin ends, only while both
\* workers drain its output
stdin_taken(c) == c.remote.fills => c.stdout_thread # "new" /\ c.stderr_thread # "new"

\* ... and its output ends only after the write side was closed
output_ended(c) == c.remote.fills => c.pc \notin {"start_threads", "write_stdin"}

SshCommand ==
    /\ Len(ssh_calls) < MaxCalls
    /\ \A i \in 1..Len(ssh_calls) : Finished(ssh_calls[i])
    /\ \E stream \in BOOLEAN, stdindata \in {None, Some(STDIN_DATA)}, out \in Stdouts, status \in ExitStatuses, closed \in BOOLEAN :
        /\ closed => ~IsNone(stdindata)
        /\ ssh_calls' = Append(ssh_calls,
               [command |-> <<"command", Len(ssh_calls) + 1>>,
                stream_output_to |-> stream,
                stdindata |-> stdindata,
                remote |-> [stdout |-> out, exit_status |-> status, closed |-> closed, fills |-> FALSE],
                pc |-> ssh_command_steps[1],
                stderr_thread |-> "new",
                stdout_thread |-> "new",
                dest |-> None,
                exit_status |-> None,
                outcome |-> NoOutcome])
    /\ UNCHANGED <<ssh_result, exceptSsh>>

\* the call of a client that makes one call, of a command of either kind
SshCommandAlone ==
    /\ ssh_calls = <<>>
    /\ \E stream \in BOOLEAN, stdindata \in {None, Some(STDIN_DATA)}, out \in Stdouts, status \in ExitStatuses, fills \in BOOLEAN :
        ssh_calls' = <<[command |-> <<"command", 1>>,
                        stream_output_to |-> stream,
                        stdindata |-> stdindata,
                        remote |-> [stdout |-> out, exit_status |-> status, closed |-> FALSE, fills |-> fills],
                        pc |-> ssh_command_steps[1],
                        stderr_thread |-> "new",
                        stdout_thread |-> "new",
                        dest |-> None,
                        exit_status |-> None,
                        outcome |-> NoOutcome]>>
    /\ UNCHANGED <<ssh_result, exceptSsh>>

\* a JSON mode call without stdindata, made by a thread of its own while
\* other calls of the client may be running
SshCommandConcurrent ==
    /\ Len(ssh_calls) < MaxCalls
    /\ \E out \in Stdouts, status \in ExitStatuses :
        ssh_calls' = Append(ssh_calls,
               [command |-> <<"command", Len(ssh_calls) + 1>>,
                stream_output_to |-> FALSE,
                stdindata |-> None,
                remote |-> [stdout |-> out, exit_status |-> status, closed |-> FALSE, fills |-> FALSE],
                pc |-> ssh_command_steps[1],
                stderr_thread |-> "new",
                stdout_thread |-> "new",
                dest |-> None,
                exit_status |-> None,
                outcome |-> NoOutcome])
    /\ UNCHANGED <<ssh_result, exceptSsh>>

\* stderr_thread.start() and stdout_thread.start()
StartThreads(i) ==
    /\ ssh_calls[i].pc = "start_threads"
    /\ ssh_calls' = [ssh_calls EXCEPT ![i].pc = After("start_threads"), ![i].stderr_thread = "running", ![i].stdout_thread = "running"]
    /\ UNCHANGED <<ssh_result, exceptSsh>>

\* stdin.write raises socket.error on a closed channel; the exception
\* leaves ssh_command, which has no handler
WriteStdin(i) ==
    /\ ssh_calls[i].pc = "write_stdin"
    /\ stdin_taken(ssh_calls[i])
    /\ ssh_calls' =
           IF ~IsNone(ssh_calls[i].stdindata) /\ ssh_calls[i].remote.closed
           THEN [ssh_calls EXCEPT ![i].pc = "raised", ![i].outcome = Raises("socket.error")]
           ELSE [ssh_calls EXCEPT ![i].pc = After("write_stdin")]
    /\ UNCHANGED <<ssh_result, exceptSsh>>

RecvExitStatus(i) ==
    /\ ssh_calls[i].pc = "recv_exit_status"
    /\ ssh_calls' = [ssh_calls EXCEPT ![i].pc = After("recv_exit_status"), ![i].exit_status = Some(ssh_calls[i].remote.exit_status)]
    /\ UNCHANGED <<ssh_result, exceptSsh>>

\* stdout_thread.join() and stderr_thread.join()
Join(i) ==
    /\ ssh_calls[i].pc = "join"
    /\ ssh_calls[i].stdout_thread = "done"
    /\ ssh_calls[i].stderr_thread = "done"
    /\ ssh_calls' = [ssh_calls EXCEPT ![i].pc = "joined"]
    /\ UNCHANGED <<ssh_result, exceptSsh>>

\* the rest of ssh_command, with its one read of self.ssh_result
SshReturn(i) ==
    /\ ssh_calls[i].pc = "joined"
    /\ LET outcome == ssh_command_tail(ssh_calls[i], ssh_result)
       IN  ssh_calls' = [ssh_calls EXCEPT ![i].outcome = outcome, ![i].pc = IF outcome.kind = "return" THEN "returned" ELSE "raised"]
    /\ UNCHANGED <<ssh_result, exceptSsh>>

\* the stdout worker, once the remote end closed stdout: in JSON mode
\* machine_readable_command_reader_thread, else stream_byte_copy_thread,
\* which copies the bytes to stream_output_to
StdoutThread(i) ==
    /\ ssh_calls[i].stdout_thread = "running"
    /\ output_ended(ssh_calls[i])
    /\ IF ssh_calls[i].stream_output_to
       THEN /\ ssh_calls' = [ssh_calls EXCEPT ![i].stdout_thread = "done", ![i].dest = Some(ssh_calls[i].remote.stdout)]
            /\ UNCHANGED ssh_result
       ELSE /\ ssh_calls' = [ssh_calls EXCEPT ![i].stdout_thread = "done"]
            /\ ssh_result' = machine_readable_command_reader_thread(ssh_result, ssh_calls[i].remote.stdout)
    /\ UNCHANGED exceptSsh

\* the stderr worker, stream_copy_logger, once the remote end closed stderr
StderrThread(i) ==
    /\ ssh_calls[i].stderr_thread = "running"
    /\ output_ended(ssh_calls[i])
    /\ ssh_calls' = [ssh_calls EXCEPT ![i].stderr_thread = "done"]
    /\ UNCHANGED <<ssh_result, exceptSsh>>

\* DevkitClient.__init__
SshIdle ==
    /\ ssh_result = JsonValue({})
    /\ ssh_calls = <<>>

----------------------------------------------------------------------------
(* DevkitClient.rsync_transfer and on_cancel_transfer *)

\* the number of rsync_transfer calls of one behaviour
MaxTransfers == 2

\* the number of on_cancel_transfer calls of one behaviour
MaxCancels == 2

\* the exit status of an rsync that ran to its end: success, or a partial
\* transfer
RSYNC_OK == 0

RSYNC_PARTIAL == 23

\* the return code of a process ended by terminate(): -SIGTERM
SIGTERM_RETURNCODE == 0 - 15

NoTransfer == [pc |-> "idle", isdir |-> TRUE, before |-> None, spawned |-> 0, retcode |-> None, outcome |-> NoOutcome]

\* target: the process whose terminate() the call ran
NoCancel == [pc |-> "idle", target |-> None, outcome |-> NoOutcome]

\* os.path.isdir(localdir) is not tested
rsync_transfer_unchecked(isdir) == "spawn"

\* the test of localdir at the head of rsync_transfer: the next step
rsync_transfer_check(isdir) == IF ~isdir THEN "raised" ELSE "spawn"

\* rsync_transfer is called: before and spawned record rsync_process and
\* the number of processes spawned so far, as the call found them
RsyncTransfer ==
    /\ transfer.pc \in {"idle", "returned", "raised"}
    /\ transfers < MaxTransfers
    /\ transfers' = transfers + 1
    /\ \E isdir \in BOOLEAN :
        transfer' = [NoTransfer EXCEPT !.pc = "check", !.isdir = isdir, !.before = rsync_process, !.spawned = Len(processes)]
    /\ UNCHANGED <<rsync_process, processes, cancel, cancels, exceptRsync>>

\* if not os.path.isdir(localdir): raise Exception(...)
RsyncCheck ==
    /\ transfer.pc = "check"
    /\ LET next == rsync_transfer_check(transfer.isdir)
       IN  transfer' = [transfer EXCEPT !.pc = next, !.outcome = IF next = "raised" THEN Raises("Exception") ELSE NoOutcome]
    /\ UNCHANGED <<rsync_process, processes, transfers, cancel, cancels, exceptRsync>>

\* self.rsync_process = subprocess.Popen(cmd, ...)
RsyncSpawn ==
    /\ transfer.pc = "spawn"
    /\ processes' = Append(processes, [alive |-> TRUE, returncode |-> None])
    /\ rsync_process' = Some(Len(processes) + 1)
    /\ transfer' = [transfer EXCEPT !.pc = "reading"]
    /\ UNCHANGED <<transfers, cancel, cancels, exceptRsync>>

\* the rsync process ends by itself
ProcessExit ==
    \E pid \in 1..Len(processes), status \in {RSYNC_OK, RSYNC_PARTIAL} :
        /\ processes[pid].alive
        /\ processes' = [processes EXCEPT ![pid] = [alive |-> FALSE, returncode |-> Some(status)]]
        /\ UNCHANGED <<rsync_process, transfer, transfers, cancel, cancels, exceptRsync>>

\* the read loop takes a line that is not UTF-8: output.decode('utf-8')
\* raises, and the call ends with rsync_process still set
RsyncReadUndecodable ==
    /\ transfer.pc = "reading"
    /\ transfer' = [transfer EXCEPT !.pc = "raised", !.outcome = Raises("UnicodeDecodeError")]
    /\ UNCHANGED <<rsync_process, processes, transfers, cancel, cancels, exceptRsync>>

\* the read loop ends: readline returned b'' and poll() is not None
RsyncReadEof ==
    /\ transfer.pc = "reading"
    /\ ~IsNone(rsync_process)
    /\ ~processes[Val(rsync_process)].alive
    /\ transfer' = [transfer EXCEPT !.pc = "wait"]
    /\ UNCHANGED <<rsync_process, processes, transfers, cancel, cancels, exceptRsync>>

\* retcode = self.rsync_process.wait()
RsyncWait ==
    /\ transfer.pc = "wait"
    /\ transfer' = [transfer EXCEPT !.pc = "clear", !.retcode = processes[Val(rsync_process)].returncode]
    /\ UNCHANGED <<rsync_process, processes, transfers, cancel, cancels, exceptRsync>>

\* self.rsync_process = None, and the return or the CalledProcessError
RsyncClear ==
    /\ transfer.pc = "clear"
    /\ rsync_process' = None
    /\ transfer' = IF Val(transfer.retcode) # 0
                   THEN [transfer EXCEPT !.pc = "raised", !.outcome = CalledProcessError(Val(transfer.retcode), <<"rsync">>)]
                   ELSE [transfer EXCEPT !.pc = "returned", !.outcome = Returns(transfer.retcode)]
    /\ UNCHANGED <<processes, transfers, cancel, cancels, exceptRsync>>

\* on_cancel_transfer is called on another thread and evaluates
\* 'if self.rsync_process:'
CancelTest ==
    /\ cancel.pc \in {"idle", "returned", "raised"}
    /\ cancels < MaxCancels
    /\ cancels' = cancels + 1
    /\ cancel' = IF IsNone(rsync_process)
                 THEN [NoCancel EXCEPT !.pc = "returned", !.outcome = Returns(None)]
                 ELSE [NoCancel EXCEPT !.pc = "terminate"]
    /\ UNCHANGED <<rsync_process, processes, transfer, transfers, exceptRsync>>

\* self.rsync_process.terminate(): the attribute is read again.  None has
\* no terminate (AttributeError); terminate() of a process that has ended
\* does nothing
CancelTerminate ==
    /\ cancel.pc = "terminate"
    /\ IF IsNone(rsync_process)
       THEN /\ cancel' = [cancel EXCEPT !.pc = "raised", !.outcome = Raises("AttributeError")]
            /\ UNCHANGED processes
       ELSE /\ cancel' = [cancel EXCEPT !.pc = "returned", !.target = rsync_process, !.outcome = Returns(None)]
            /\ processes' = IF processes[Val(rsync_process)].alive
                            THEN [processes EXCEPT ![Val(rsync_process)] = [alive |-> FALSE, returncode |-> Some(SIGTERM_RETURNCODE)]]
                            ELSE processes
    /\ UNCHANGED <<rsync_process, transfer, transfers, cancels, exceptRsync>>

\* DevkitClient.__init__, and no call made yet
RsyncIdle ==
    /\ rsync_process = None
    /\ processes = <<>>
    /\ transfer = NoTransfer
    /\ transfers = 0
    /\ cancel = NoCancel
    /\ cancels = 0

----------------------------------------------------------------------------
(* screenshot: the poll for the remote file and the choice of a local path *)

\* attempts = 100
SCREENSHOT_ATTEMPTS == 100

\* the number of numbered names next to the computed path that may exist
MaxFiles == 3

\* the remote files gamescope.png and gamescope_1-2.png
GAMESCOPE_PNG == <<"g","a","m","e","s","c","o","p","e",".","p","n","g">>

GAMESCOPE_STAMPED == <<"g","a","m","e","s","c","o","p","e","_","1","-","2",".","p","n","g">>

\* args.folder and args.filename: the folder d, the file name a.b
FOLDER_D == <<"d">>

FILENAME_A_B == <<"a",".","b">>

\* datetime.datetime.now().strftime('%Y%m%d%H%M%S')
NOW_STAMP == <<"2","0","2","2","0","9","2","0","1","2","0","0","0","0">>

\* the index of the last dot of a file name, 0 if it has none
RECURSIVE LastDot(_, _)
LastDot(name, i) ==
    IF i = 0 THEN 0
    ELSE IF name[i] = "." THEN i ELSE LastDot(name, i - 1)

\* pathlib's suffix of a file name: from the last dot on, unless that dot
\* is the first or the last character
PathSuffix(name) ==
    LET i == LastDot(name, Len(name))
    IN  IF i > 1 /\ i < Len(name) THEN SubSeq(name, i, Len(name)) ELSE <<>>

\* Path(name).with_suffix('')
WithoutSuffix(name) == SubSeq(name, 1, Len(name) - Len(PathSuffix(name)))

\* the final component of a path
RECURSIVE LastSlash(_, _)
LastSlash(path, i) ==
    IF i = 0 THEN 0
    ELSE IF path[i] = "/" THEN i ELSE LastSlash(path, i - 1)

FileName(path) == SubSeq(path, LastSlash(path, Len(path)) + 1, Len(path))

\* re.search('_[0-9-_]*', name): the first underscore and the digits,
\* hyphens and underscores that follow it; None without an underscore
StampChars == {DIGITS[i] : i \in 1..10} \cup {"-", "_"}

RECURSIVE StampRun(_, _)
StampRun(name, i) ==
    IF i > Len(name) \/ name[i] \notin StampChars THEN <<>>
    ELSE <<name[i]>> \o StampRun(name, i + 1)

RECURSIVE FirstUnderscore(_, _)
FirstUnderscore(name, i) ==
    IF i > Len(name) THEN 0
    ELSE IF name[i] = "_" THEN i ELSE FirstUnderscore(name, i + 1)

SearchStamp(name) ==
    LET i == FirstUnderscore(name, 1)
    IN  IF i = 0 THEN None ELSE Some(<<"_">> \o StampRun(name, i + 1))

\* str(i) and f'{i:03}'
RECURSIVE Decimal(_)
Decimal(i) == IF i < 10 THEN <<DIGITS[i + 1]>> ELSE Decimal(i \div 10) \o <<DIGITS[(i % 10) + 1]>>

Format03(i) ==
    LET d == Decimal(i)
    IN  IF Len(d) >= 3 THEN d ELSE [k \in 1..(3 - Len(d)) |-> "0"] \o d

\* the local path that screenshot computes from its arguments and from the
\* name of the remote file
ComputedPath(folder, filename, do_timestamp, remote_filename) ==
    LET name == IF IsNone(filename) \/ Len(Val(filename)) = 0 THEN remote_filename ELSE Val(filename)
        suffix == PathSuffix(remote_filename)
        stem == WithoutSuffix(name)
        m == SearchStamp(remote_filename)
        timestamp == IF ~IsNone(m) THEN Val(m) ELSE <<"-">> \o NOW_STAMP
    IN  IF do_timestamp
        THEN folder \o <<"/">> \o stem \o timestamp \o suffix
        ELSE folder \o <<"/">> \o stem \o suffix

\* f'{base}_{i:03}{suffix}'
TestPath(local_path, i) ==
    LET suffix == PathSuffix(FileName(local_path))
        base == SubSeq(local_path, 1, Len(local_path) - Len(suffix))
    IN  base \o <<"_">> \o Format03(i) \o suffix

\* the while True loop: the first numbered path that does not exist
RECURSIVE FirstFree(_, _, _)
FirstFree(local_path, exists, i) ==
    IF TestPath(local_path, i) \notin exists THEN TestPath(local_path, i)
    ELSE FirstFree(local_path, exists, i + 1)

\* the computed path is used whether or not it exists
OverwritePath(local_path, exists) == local_path

\* the path downloaded to: the computed one, unless it exists
ChoosePath(local_path, exists) ==
    IF local_path \in exists THEN FirstFree(local_path, exists, 0) ELSE local_path

\* the files that may exist when the path is chosen
NearbyFiles(local_path) == {local_path} \cup {TestPath(local_path, i) : i \in 0..(MaxFiles - 1)}

NoShot == [pc |-> "idle", folder |-> FOLDER_D, filename |-> None, do_timestamp |-> FALSE, attempts |-> 0, remote_filename |-> None, exists |-> {}, local_path |-> None, outcome |-> NoOutcome]

\* screenshot is called: the old remote files are removed and gamescope is
\* signalled; that command is run with check_status and may fail
Screenshot ==
    /\ shot.pc \in {"idle", "returned", "raised"}
    /\ \E filename \in {None, Some(FILENAME_A_B)}, do_timestamp \in BOOLEAN, signalled \in BOOLEAN :
        shot' = IF signalled
                THEN [NoShot EXCEPT !.pc = "poll", !.filename = filename, !.do_timestamp = do_timestamp, !.attempts = SCREENSHOT_ATTEMPTS]
                ELSE [NoShot EXCEPT !.pc = "raised", !.filename = filename, !.do_timestamp = do_timestamp, !.outcome = Raises("Exception")]
    /\ UNCHANGED exceptShot

\* one turn of the poll loop: attempts -= 1 and the find command, which
\* lists a remote file or nothing
ShotPoll ==
    /\ shot.pc = "poll"
    /\ shot.attempts > 0
    /\ \E found \in {None, Some(GAMESCOPE_PNG), Some(GAMESCOPE_STAMPED)} :
        shot' = IF IsNone(found)
                THEN [shot EXCEPT !.attempts = shot.attempts - 1]
                ELSE [shot EXCEPT !.attempts = shot.attempts - 1, !.pc = "download", !.remote_filename = found]
    /\ UNCHANGED exceptShot

\* the loop condition is false: no turn is left
ShotExhausted ==
    /\ shot.pc = "poll"
    /\ shot.attempts <= 0
    /\ shot' = [shot EXCEPT !.pc = "after_loop"]
    /\ UNCHANGED exceptShot

\* the local path is computed and chosen against the files that exist
\* then (exists), the file is fetched to it, and the loop is left by break
ShotDownload ==
    /\ shot.pc = "download"
    /\ LET computed == ComputedPath(shot.folder, shot.filename, shot.do_timestamp, Val(shot.remote_filename))
       IN  \E exists \in SUBSET NearbyFiles(computed) :
               shot' = [shot EXCEPT !.pc = "after_loop", !.exists = exists, !.local_path = Some(ChoosePath(computed, exists))]
    /\ UNCHANGED exceptShot

\* if attempts <= 0: raise Exception('Could not retrieve screenshot: timeout.')
ShotAfterLoop ==
    /\ shot.pc = "after_loop"
    /\ shot' = IF shot.attempts <= 0
               THEN [shot EXCEPT !.pc = "raised", !.outcome = Raises("timeout")]
               ELSE [shot EXCEPT !.pc = "returned", !.outcome = Returns(None)]
    /\ UNCHANGED exceptShot

ShotIdle == shot = NoShot

----------------------------------------------------------------------------
(* _obtain_trace: the capture request, arming, and the retry *)

\* what gpu-trace writes to stderr: nothing, the failure that the code
\* recognizes, and the shell's message for a missing command
ERR_NONE == ""

ERR_FAILED_TO_CAPTURE == "ERROR: Failed to capture trace"

ERR_NOT_FOUND == "bash: gpu-trace: command not found"

ErrTexts == {ERR_NONE, ERR_FAILED_TO_CAPTURE, ERR_NOT_FOUND}

\* the exit status of a shell that did not find the command
COMMAND_NOT_FOUND == 127

\* err_text.find('Failed to capture trace') != -1
FindsFailedToCapture(err_text) == err_text = ERR_FAILED_TO_CAPTURE

\* the answers to a capture request: exit status and stderr
CaptureAnswers == [exit_status : {0, 1, COMMAND_NOT_FOUND}, err_text : ErrTexts]

\* the test after the first capture request
CaptureFailed(answer) == answer.exit_status # 0 \/ FindsFailedToCapture(answer.err_text)

\* requests and captures: history, the requests issued and the answers to
\* the capture requests; started: the exit status of gpu-trace --start
NoTrace == [pc |-> "idle", requests |-> <<>>, captures |-> <<>>, started |-> None, exit_status |-> 0, err_text |-> ERR_NONE, fetched |-> FALSE, outcome |-> NoOutcome]

\* _obtain_trace is called: mktemp and rm run with check_status, and a
\* failure of either raises
ObtainTrace ==
    /\ trace.pc \in {"idle", "returned", "raised"}
    /\ \E prepared \in BOOLEAN :
        trace' = IF prepared
                 THEN [NoTrace EXCEPT !.pc = "capture", !.requests = <<"mktemp", "rm">>]
                 ELSE [NoTrace EXCEPT !.pc = "raised", !.requests = <<"mktemp">>, !.outcome = Raises("Exception")]
    /\ UNCHANGED exceptTrace

\* the first capture request and the test of its answer
TraceCapture ==
    /\ trace.pc = "capture"
    /\ \E answer \in CaptureAnswers :
        trace' = [trace EXCEPT !.pc = IF CaptureFailed(answer) THEN "start" ELSE "check",
                               !.requests = Append(trace.requests, "capture"),
                               !.captures = Append(trace.captures, answer),
                               !.exit_status = answer.exit_status,
                               !.err_text = answer.err_text]
    /\ UNCHANGED exceptTrace

\* gpu-trace --start; its answer is not looked at
TraceStart ==
    /\ trace.pc = "start"
    /\ \E status \in {0, 1} :
        trace' = [trace EXCEPT !.pc = "capture_again", !.requests = Append(trace.requests, "start"), !.started = Some(status)]
    /\ UNCHANGED exceptTrace

\* the capture request is issued again; its answer replaces the first
TraceCaptureAgain ==
    /\ trace.pc = "capture_again"
    /\ \E answer \in CaptureAnswers :
        trace' = [trace EXCEPT !.pc = "check",
                               !.requests = Append(trace.requests, "capture"),
                               !.captures = Append(trace.captures, answer),
                               !.exit_status = answer.exit_status,
                               !.err_text = answer.err_text]
    /\ UNCHANGED exceptTrace

\* if exit_status != 0: raise Exception('command failed, check console')
TraceCheck ==
    /\ trace.pc = "check"
    /\ trace' = IF trace.exit_status # 0
                THEN [trace EXCEPT !.pc = "raised", !.outcome = Raises("Exception")]
                ELSE [trace EXCEPT !.pc = "get"]
    /\ UNCHANGED exceptTrace

\* sftp.get of the remote trace file, which raises when there is none;
\* then the remote file is removed and the local file name returned
TraceGet ==
    /\ trace.pc = "get"
    /\ \E present \in BOOLEAN :
        trace' = IF present
                 THEN [trace EXCEPT !.pc = "returned", !.requests = trace.requests \o <<"get", "rm">>, !.fetched = TRUE, !.outcome = Returns(Some("local_trace_file"))]
                 ELSE [trace EXCEPT !.pc = "raised", !.requests = Append(trace.requests, "get"), !.outcome = Raises("FileNotFoundError")]
    /\ UNCHANGED exceptTrace

TraceIdle == trace = NoTrace

----------------------------------------------------------------------------
(* set_session and steamos_get_status *)

\* while count < 5
SESSION_POLLS == 5

GAMESCOPE == "gamescope"

PLASMA_WAYLAND == "plasma-wayland"

PLASMA_X11 == "plasma-x11"

STEAM_NOT_RUNNING == "SteamStatus.NOT_RUNNING"

STEAM_RUNNING == "SteamStatus.RUNNING"

\* the documents that steamos-get-status --json prints
Statuses == [session_status : {GAMESCOPE, PLASMA_WAYLAND}, steam_status : {STEAM_NOT_RUNNING, STEAM_RUNNING}]

\* the answers to the status command: a document, text that is not JSON,
\* or a failure of the command
StatusAnswers == [exit_status : {0}, parses : {TRUE}, document : Statuses] \cup [exit_status : {0, 1}, parses : {FALSE}, document : {[session_status |-> "", steam_status |-> ""]}]

\* steamos_get_status: None when the command failed or its output is not
\* JSON, else the parsed document
steamos_get_status(answer) ==
    IF answer.exit_status # 0 THEN None
    ELSE IF ~answer.parses THEN None
         ELSE Some(answer.document)

\* the test of a status in the wait loop: whether set_session returns it
\* the test of the wait loop without its test of the Steam client
SessionMatches(status, target) == status.session_status = target

SessionReady(status, target) ==
    /\ status.session_status = target
    /\ \/ status.session_status # GAMESCOPE
       \/ status.steam_status # STEAM_NOT_RUNNING

\* observed: history, the status of the latest poll that produced one;
\* select_status: the exit status of steamos-session-select; failed:
\* history, whether a status command of the call failed
NoSession == [pc |-> "idle", target |-> GAMESCOPE, wait |-> FALSE, select_status |-> 0, count |-> 0, steamos_status |-> None, observed |-> None, failed |-> FALSE, timed_out |-> FALSE, outcome |-> NoOutcome]

\* set_session is called and requests the session; the three commands run
\* without check_status.  Without args.wait the function ends there
SetSession ==
    /\ session.pc \in {"idle", "returned", "raised"}
    /\ \E target \in {GAMESCOPE, PLASMA_WAYLAND, PLASMA_X11}, wait \in BOOLEAN, status \in {0, 1} :
        session' = IF wait
                   THEN [NoSession EXCEPT !.pc = "poll", !.target = target, !.wait = TRUE, !.select_status = status]
                   ELSE [NoSession EXCEPT !.pc = "returned", !.target = target, !.select_status = status, !.outcome = Returns(None)]
    /\ UNCHANGED exceptSession

\* one turn of the wait loop
SessionPoll ==
    /\ session.pc = "poll"
    /\ session.count < SESSION_POLLS
    /\ \E answer \in StatusAnswers :
        LET status == steamos_get_status(answer)
        IN  session' =
                IF IsNone(status)
                THEN [session EXCEPT !.count = session.count + 1, !.steamos_status = None, !.failed = TRUE]
                ELSE IF SessionReady(Val(status), session.target)
                     THEN [session EXCEPT !.count = session.count + 1, !.steamos_status = status, !.observed = status, !.pc = "returned", !.outcome = Returns(status)]
                     ELSE [session EXCEPT !.count = session.count + 1, !.steamos_status = status, !.observed = status]
    /\ UNCHANGED exceptSession

\* the loop is over: return steamos_status
SessionTimeout ==
    /\ session.pc = "poll"
    /\ session.count >= SESSION_POLLS
    /\ session' = [session EXCEPT !.pc = "returned", !.timed_out = TRUE, !.outcome = Returns(session.steamos_status)]
    /\ UNCHANGED exceptSession

SessionIdle == session = NoSession

----------------------------------------------------------------------------
(* ensure_devkit_key and _fix_key_permissions *)

\* the number of threads that call ensure_devkit_key
KeyThreads == 2

\* the number of ensure_devkit_key calls of one behaviour
MaxKeyCalls == 3

\* key_path and pubkey_path
KEY_PATH == "devkit_rsa"

PUBKEY_PATH == "devkit_rsa.pub"

\* a file: absent, holding the key numbered id ("key"), holding the first
\* part of it only ("partial"), empty, or holding other bytes ("corrupt")
AbsentFile == [state |-> "absent", id |-> 0, readable |-> TRUE]

KeyFileOf(id) == [state |-> "key", id |-> id, readable |-> TRUE]

\* the key files a behaviour may start with: none, the pair of an earlier
\* run (key 0), a private key file that is no key, a stale public key
\* file; the private key file may be unreadable for its owner
StartFiles ==
    {[private |-> pr, pub |-> pu, platform |-> pl] :
        pr \in {AbsentFile} \cup [state : {"key", "corrupt"}, id : {0}, readable : BOOLEAN],
        pu \in {AbsentFile, KeyFileOf(0)},
        pl \in {"posix", "windows"}}

\* every file is taken for a missing one
from_private_key_file_never(file) == "FileNotFoundError"

\* the unparsable file is taken for a missing one
from_private_key_file_or_missing(file) ==
    IF ~(file.state = "key" /\ file.readable) THEN "FileNotFoundError" ELSE "key"

\* paramiko.RSAKey.from_private_key_file: the key, or the exception
from_private_key_file(file) ==
    IF file.state = "absent" THEN "FileNotFoundError"
    ELSE IF ~file.readable THEN "PermissionError"
    ELSE IF file.state = "key" THEN "key"
    ELSE "SSHException"

\* the lock is not looked at
lock_ignored(lock) == TRUE

\* g_lock can be taken
lock_free(lock) == IsNone(lock)

\* _fix_key_permissions: chmod of both files to 0o400 on POSIX, where a
\* missing file makes it raise RuntimeError; icacls on Windows, whose
\* failures are logged only
fix_raises(private, pub, platform) ==
    platform = "posix" /\ (private.state = "absent" \/ pub.state = "absent")

fix_private(private) == IF private.state = "absent" THEN private ELSE [private EXCEPT !.readable = TRUE]

NoKeyCall == [pc |-> "idle", key |-> None, fixed |-> FALSE, outcome |-> NoOutcome]

\* the number of keys generated so far
Generated == Cardinality({i \in 1..Len(key_log) : key_log[i].op = "generate"})

KeyLog(op, t, id) == Append(key_log, [op |-> op, thread |-> t, id |-> id])

\* the exception leaves the with block, which releases g_lock
KeyRaise(t, kind) ==
    /\ key_thread' = [key_thread EXCEPT ![t] = [@ EXCEPT !.pc = "raised", !.outcome = Raises(kind)]]
    /\ g_lock' = IF g_lock = Some(t) THEN None ELSE g_lock

\* ensure_devkit_key is called
EnsureDevkitKey(t) ==
    /\ key_thread[t].pc \in {"idle", "returned", "raised"}
    /\ key_calls < MaxKeyCalls
    /\ key_calls' = key_calls + 1
    /\ key_thread' = [key_thread EXCEPT ![t] = [NoKeyCall EXCEPT !.pc = "lock"]]
    /\ UNCHANGED <<g_lock, private_key_file, public_key_file, key_log, key_start, exceptKey>>

\* with g_lock:
KeyAcquire(t) ==
    /\ key_thread[t].pc = "lock"
    /\ lock_free(g_lock)
    /\ g_lock' = Some(t)
    /\ key_thread' = [key_thread EXCEPT ![t].pc = "load"]
    /\ UNCHANGED <<private_key_file, public_key_file, key_calls, key_log, key_start, exceptKey>>

\* the first from_private_key_file and its except clauses
KeyLoad(t) ==
    /\ key_thread[t].pc = "load"
    /\ LET got == from_private_key_file(private_key_file)
       IN  CASE got = "key" ->
                   /\ key_thread' = [key_thread EXCEPT ![t].pc = "fix", ![t].key = Some(private_key_file.id)]
                   /\ UNCHANGED g_lock
             [] got = "PermissionError" ->
                   /\ key_thread' = [key_thread EXCEPT ![t].pc = "fix_and_load"]
                   /\ UNCHANGED g_lock
             [] got = "FileNotFoundError" ->
                   /\ key_thread' = [key_thread EXCEPT ![t].pc = "unlink"]
                   /\ UNCHANGED g_lock
             [] got = "SSHException" -> KeyRaise(t, "SSHException")
    /\ key_log' = KeyLog("load", t, IF private_key_file.state = "partial" THEN 0 - 1 ELSE private_key_file.id)
    /\ UNCHANGED <<private_key_file, public_key_file, key_calls, key_start, exceptKey>>

\* the handler of PermissionError: _fix_key_permissions, and the load again
KeyFixAndLoad(t) ==
    /\ key_thread[t].pc = "fix_and_load"
    /\ IF fix_raises(private_key_file, public_key_file, key_start.platform)
       THEN /\ KeyRaise(t, "RuntimeError")
            /\ private_key_file' = fix_private(private_key_file)
       ELSE /\ private_key_file' = fix_private(private_key_file)
            /\ LET got == from_private_key_file(private_key_file')
               IN  IF got = "key"
                   THEN /\ key_thread' = [key_thread EXCEPT ![t].pc = "fix", ![t].key = Some(private_key_file.id)]
                        /\ UNCHANGED g_lock
                   ELSE KeyRaise(t, got)
    /\ UNCHANGED <<public_key_file, key_calls, key_log, key_start, exceptKey>>

\* the handler of FileNotFoundError: makedirs, and the unlink of the files
\* that exist
KeyUnlink(t) ==
    /\ key_thread[t].pc = "unlink"
    /\ private_key_file' = AbsentFile
    /\ public_key_file' = AbsentFile
    /\ key_thread' = [key_thread EXCEPT ![t].pc = "generate"]
    /\ UNCHANGED <<g_lock, key_calls, key_log, key_start, exceptKey>>

\* key = paramiko.RSAKey.generate(2048): a key no one had before
KeyGenerate(t) ==
    /\ key_thread[t].pc = "generate"
    /\ key_thread' = [key_thread EXCEPT ![t].pc = "write_private", ![t].key = Some(Generated + 1)]
    /\ key_log' = KeyLog("generate", t, Generated + 1)
    /\ UNCHANGED <<g_lock, private_key_file, public_key_file, key_calls, key_start, exceptKey>>

\* key.write_private_key_file(key_path) has written a part of the file
KeyWritePrivate(t) ==
    /\ key_thread[t].pc = "write_private"
    /\ private_key_file' = [state |-> "partial", id |-> Val(key_thread[t].key), readable |-> TRUE]
    /\ key_thread' = [key_thread EXCEPT ![t].pc = "write_private_end"]
    /\ key_log' = KeyLog("write_private", t, Val(key_thread[t].key))
    /\ UNCHANGED <<g_lock, public_key_file, key_calls, key_start, exceptKey>>

\* ... and the rest of it
KeyWritePrivateEnd(t) ==
    /\ key_thread[t].pc = "write_private_end"
    /\ private_key_file' = KeyFileOf(Val(key_thread[t].key))
    /\ key_thread' = [key_thread EXCEPT ![t].pc = "write_pub"]
    /\ UNCHANGED <<g_lock, public_key_file, key_calls, key_log, key_start, exceptKey>>

\* o = open(pubkey_path, 'w'); o.write(get_public_key(key)): the file
\* exists; the text is in the buffer of o, which nothing closes
KeyWritePub(t) ==
    /\ key_thread[t].pc = "write_pub"
    /\ public_key_file' = [state |-> "empty", id |-> Val(key_thread[t].key), readable |-> TRUE]
    /\ key_thread' = [key_thread EXCEPT ![t].pc = "fix"]
    /\ key_log' = KeyLog("write_pub", t, Val(key_thread[t].key))
    /\ UNCHANGED <<g_lock, private_key_file, key_calls, key_start, exceptKey>>

\* _fix_key_permissions(key_path, pubkey_path) at the end of the with block
KeyFix(t) ==
    /\ key_thread[t].pc = "fix"
    /\ private_key_file' = fix_private(private_key_file)
    /\ IF fix_raises(private_key_file, public_key_file, key_start.platform)
       THEN KeyRaise(t, "RuntimeError")
       ELSE /\ key_thread' = [key_thread EXCEPT ![t].pc = "return", ![t].fixed = TRUE]
            /\ UNCHANGED g_lock
    /\ UNCHANGED <<public_key_file, key_calls, key_log, key_start, exceptKey>>

\* return (key, key_path, pubkey_path): the lock is released, and the
\* frame's file object o is closed, which writes its buffer
KeyReturn(t) ==
    /\ key_thread[t].pc = "return"
    /\ g_lock' = IF g_lock = Some(t) THEN None ELSE g_lock
    /\ public_key_file' = IF public_key_file.state = "empty" /\ public_key_file.id = Val(key_thread[t].key)
                          THEN KeyFileOf(public_key_file.id)
                          ELSE public_key_file
    /\ key_thread' = [key_thread EXCEPT ![t].pc = "returned", ![t].outcome = Returns(Some(<<Val(key_thread[t].key), KEY_PATH, PUBKEY_PATH>>))]
    /\ key_log' = KeyLog("return", t, Val(key_thread[t].key))
    /\ UNCHANGED <<private_key_file, key_calls, key_start, exceptKey>>

\* no call made yet, whatever the key files
KeyIdle ==
    /\ g_lock = None
    /\ key_thread = [t \in 1..KeyThreads |-> NoKeyCall]
    /\ key_calls = 0
    /\ key_log = <<>>
    /\ key_start = [private |-> AbsentFile, pub |-> AbsentFile, platform |-> "posix"]
    /\ private_key_file = AbsentFile
    /\ public_key_file = AbsentFile

----------------------------------------------------------------------------
(* locate_cygwin_tools *)

\* the number of locate_cygwin_tools calls of one behaviour
MaxLocateCalls == 3

\* the external tools: the first is looked for on win32 only
Tools == {"cygpath", "ssh", "rsync"}

KNOWN_HOSTS == "known_hosts"

\* the machines the client runs on: the platform, and whether the
\* environment has USERPROFILE with a .ssh folder that exists or can be made
LocateEnvs == [platform : {"linux", "win32"}, userprofile : BOOLEAN]

\* locate_cygwin_tools: the outcome of the call, and g_external_tools
\* after it
locate_cygwin_tools(cache, env, installed) ==
    IF ~IsNone(cache) THEN [outcome |-> Returns(cache), cache |-> cache]
    ELSE IF env.platform # "win32"
    THEN LET tools == <<None, Some("ssh"), Some("rsync"), None>>
         IN  IF "ssh" \notin installed \/ "rsync" \notin installed
             THEN [outcome |-> Raises("Exception"), cache |-> Some(tools)]
             ELSE [outcome |-> Returns(Some(tools)), cache |-> Some(tools)]
    ELSE IF \E tool \in Tools : tool \notin installed
    THEN [outcome |-> Raises("Exception"), cache |-> None]
    ELSE IF ~env.userprofile
    THEN [outcome |-> Raises("Exception"), cache |-> None]
    ELSE LET tools == <<Some("cygpath"), Some("ssh"), Some("rsync"), Some(KNOWN_HOSTS)>>
         IN  [outcome |-> Returns(Some(tools)), cache |-> Some(tools)]

\* a call of locate_cygwin_tools
LocateCygwinTools ==
    /\ Len(locate_log) < MaxLocateCalls
    /\ LET r == locate_cygwin_tools(g_external_tools, locate_env, installed_tools)
       IN  /\ g_external_tools' = r.cache
           /\ locate_log' = Append(locate_log, [missing |-> {"ssh", "rsync"} \ installed_tools, outcome |-> r.outcome])
    /\ UNCHANGED <<installed_tools, locate_env, exceptLocate>>

\* the user installs a tool that was missing
InstallTool(tool) ==
    /\ tool \notin installed_tools
    /\ installed_tools' = installed_tools \cup {tool}
    /\ UNCHANGED <<g_external_tools, locate_env, locate_log, exceptLocate>>

\* no call made yet, on a machine with all the tools
LocateIdle ==
    /\ g_external_tools = None
    /\ installed_tools = Tools
    /\ locate_env = [platform |-> "linux", userprofile |-> TRUE]
    /\ locate_log = <<>>

----------------------------------------------------------------------------
(* rgp_capture *)

\* the value at which the model stops counting the polls of a call (the
\* polls themselves go on)
MaxRgpPolls == 20

\* the time the first loop waits for the capture file, in tenths of a second
RGP_FILENAME_WAIT == 20

\* the time one turn of the first loop takes: its sleep of a tenth, or a
\* slow ls as well
RgpTurns == {1, 10}

\* the sizes stat reports
RgpSizes == {0, 1, 2, 3}

LS_NOT_FOUND == 2

NoRgp == [pc |-> "idle", clock |-> 0, exit_status |-> LS_NOT_FOUND, size |-> 0, polls |-> 0, outcome |-> NoOutcome]

\* the test that ends the size loop
size_settled(updated_size, size) == updated_size # 0 /\ updated_size = size

\* rgp_capture is called: the stale captures are removed and the trigger
\* is touched
RgpCapture ==
    /\ rgp.pc = "idle"
    /\ rgp' = [NoRgp EXCEPT !.pc = "wait_file"]
    /\ UNCHANGED exceptRgp

\* a turn of the first loop: ls -1t /tmp/*.rgp
RgpList ==
    /\ rgp.pc = "wait_file"
    /\ rgp.clock < RGP_FILENAME_WAIT
    /\ \/ rgp' = [rgp EXCEPT !.exit_status = 0, !.pc = "size_loop"]
       \/ \E turn \in RgpTurns :
            rgp' = [rgp EXCEPT !.exit_status = LS_NOT_FOUND, !.clock = rgp.clock + turn]
    /\ UNCHANGED exceptRgp

\* the two seconds are over without a capture file
RgpListTimeout ==
    /\ rgp.pc = "wait_file"
    /\ rgp.clock >= RGP_FILENAME_WAIT
    /\ rgp' = [rgp EXCEPT !.pc = "raised", !.outcome = Raises("Exception")]
    /\ UNCHANGED exceptRgp

\* a turn of the size loop whose stat reports a size
RgpStat ==
    /\ rgp.pc = "size_loop"
    /\ \E updated_size \in RgpSizes :
         rgp' = IF size_settled(updated_size, rgp.size)
                THEN [rgp EXCEPT !.pc = "download", !.polls = IF rgp.polls < MaxRgpPolls THEN rgp.polls + 1 ELSE rgp.polls]
                ELSE [rgp EXCEPT !.size = updated_size, !.polls = IF rgp.polls < MaxRgpPolls THEN rgp.polls + 1 ELSE rgp.polls]
    /\ UNCHANGED exceptRgp

\* a turn of the size loop whose stat fails: check_status raises
RgpStatFails ==
    /\ rgp.pc = "size_loop"
    /\ rgp' = [rgp EXCEPT !.pc = "raised", !.outcome = Raises("Exception")]
    /\ UNCHANGED exceptRgp

\* sftp.get of the capture
RgpDownload ==
    /\ rgp.pc = "download"
    /\ rgp' = [rgp EXCEPT !.pc = "returned", !.outcome = Returns(None)]
    /\ UNCHANGED exceptRgp

RgpIdle == rgp = NoRgp

----------------------------------------------------------------------------
(* save_game_details and read_game_details *)

\* the number of threads that save details of the one game, each for a
\* machine of its own
SaveThreads == 2

\* the number of save_game_details calls of one behaviour
MaxSaves == 3

\* the {destdir, gameid, username} values saved
DETAILS_1 == [destdir |-> "d1", gameid |-> "g", username |-> "u"]

DETAILS_2 == [destdir |-> "d2", gameid |-> "g", username |-> "u"]

GameDetails == {DETAILS_1, DETAILS_2}

\* the name of the machine of thread t
MachineOf(t) == IF t = 1 THEN "a" ELSE IF t = 2 THEN "b" ELSE "c"

\* the text of a file: the JSON object json.dump wrote (its keys and their
\* values), and whether text of a longer, earlier write is left behind it.
\* The text of an object with more entries is the longer one.
EmptyText == [entries |-> <<>>, parsable |-> FALSE]

JsonText(obj) == [entries |-> obj, parsable |-> TRUE]

EMPTY_OBJECT == JsonText(<<>>)

\* a write at offset 0, through a handle opened before, over the text the
\* file has by then
WriteOver(old, new) ==
    IF Cardinality(DOMAIN old.entries) > Cardinality(DOMAIN new.entries)
    THEN [entries |-> new.entries, parsable |-> FALSE]
    ELSE new

\* json_object[machine] = {...}
SetEntry(obj, machine, details) == [k \in DOMAIN obj \cup {machine} |-> IF k = machine THEN details ELSE obj[k]]

\* the text at path, '{}' when there is no file
TextAt(entry) == IF IsNone(entry) THEN EMPTY_OBJECT ELSE inodes[Val(entry)]

\* read_game_details
read_game_details(machine) ==
    IF IsNone(game_dir.game) THEN Returns(None)
    ELSE LET text == TextAt(game_dir.game)
         IN  IF ~text.parsable THEN Raises("JSONDecodeError")
             ELSE IF machine \in DOMAIN text.entries THEN Returns(Some(text.entries[machine]))
             ELSE Returns(None)

NoSave == [pc |-> "idle", details |-> DETAILS_1, json_object |-> <<>>, handle |-> 0, outcome |-> NoOutcome]

\* save_game_details is called
SaveGameDetails(t) ==
    /\ saver[t].pc \in {"idle", "returned", "raised"}
    /\ saves < MaxSaves
    /\ saves' = saves + 1
    /\ \E details \in GameDetails :
         saver' = [saver EXCEPT ![t] = [NoSave EXCEPT !.pc = "read", !.details = details]]
    /\ UNCHANGED <<game_dir, inodes, exceptGame>>

\* the read of the game file, json.loads, and the assignment of the entry
SaveRead(t) ==
    /\ saver[t].pc = "read"
    /\ LET text == TextAt(game_dir.game)
       IN  saver' = IF ~text.parsable
                    THEN [saver EXCEPT ![t].pc = "raised", ![t].outcome = Raises("JSONDecodeError")]
                    ELSE [saver EXCEPT ![t].pc = "open", ![t].json_object = SetEntry(text.entries, MachineOf(t), saver[t].details)]
    /\ UNCHANGED <<game_dir, inodes, saves, exceptGame>>

\* open(path + ".new", "w"): the file is made, or the one there is emptied
SaveOpen(t) ==
    /\ saver[t].pc = "open"
    /\ LET id == IF IsNone(game_dir.new) THEN Len(inodes) + 1 ELSE Val(game_dir.new)
       IN  /\ inodes' = IF IsNone(game_dir.new) THEN Append(inodes, EmptyText) ELSE [inodes EXCEPT ![id] = EmptyText]
           /\ game_dir' = [game_dir EXCEPT !.new = Some(id)]
           /\ saver' = [saver EXCEPT ![t].pc = "dump", ![t].handle = id]
    /\ UNCHANGED <<saves, exceptGame>>

\* json.dump and the end of the with block: the buffered text is written
\* to the file the handle was opened on, whatever name it has by now
SaveDump(t) ==
    /\ saver[t].pc = "dump"
    /\ inodes' = [inodes EXCEPT ![saver[t].handle] = WriteOver(@, JsonText(saver[t].json_object))]
    /\ saver' = [saver EXCEPT ![t].pc = "replace"]
    /\ UNCHANGED <<game_dir, saves, exceptGame>>

\* os.replace(path + '.new', path); a missing .new file is an IOError,
\* which is logged
SaveReplace(t) ==
    /\ saver[t].pc = "replace"
    /\ game_dir' = IF IsNone(game_dir.new) THEN game_dir ELSE [game |-> game_dir.new, new |-> None]
    /\ saver' = [saver EXCEPT ![t].pc = "returned", ![t].outcome = Returns(None)]
    /\ UNCHANGED <<inodes, saves, exceptGame>>

GameIdle ==
    /\ game_dir = [game |-> None, new |-> None]
    /\ inodes = <<>>
    /\ saver = [t \in 1..SaveThreads |-> NoSave]
    /\ saves = 0

----------------------------------------------------------------------------
(* The state in which no tool of the client has been used *)

ToolsIdle == SshIdle /\ RsyncIdle /\ ShotIdle /\ TraceIdle /\ SessionIdle /\ KeyIdle /\ LocateIdle /\ RgpIdle /\ GameIdle

----------------------------------------------------------------------------
(* Specifications *)

\* the discovery cache: a constructed listener, its callbacks on the
\* zeroconf thread, a consumer of its events, and lookups by other threads
Init ==
    /\ g_zeroconf_listener = "listener"
    /\ devkits = <<>>
    /\ devkit_events = <<>>
    /\ callbacks = <<>>
    /\ dequeued = <<>>
    /\ lookup = NoLookup
    /\ call = NoCall
    /\ ToolsIdle

Next ==
    \/ AddService
    \/ UpdateService
    \/ RemoveService
    \/ GetEvent
    \/ LookupCheck
    \/ AddressForService
    \/ PortForService
    \/ UpdateServiceInfo
    \/ LookupReturn

Spec == Init /\ [][Next]_vars

\* the resolver: calls of resolve_machine before a listener exists, with
\* an empty cache, and with foo cached by one add_service callback
InitResolve ==
    /\ \/ /\ g_zeroconf_listener = "None"
          /\ devkits = <<>> /\ devkit_events = <<>> /\ callbacks = <<>>
       \/ /\ g_zeroconf_listener = "listener"
          /\ devkits = <<>> /\ devkit_events = <<>> /\ callbacks = <<>>
       \/ /\ g_zeroconf_listener = "listener"
          /\ devkits = add_service(<<>>, <<>>, InstanceName(Foo),
                                   Some(InfoV1)).devkits
          /\ devkit_events = add_service(<<>>, <<>>, InstanceName(Foo),
                                         Some(InfoV1)).devkit_events
          /\ callbacks = <<[op |-> "add_service", name |-> Foo,
                            ok |-> TRUE, had |-> FALSE,
                            has |-> TRUE, put |-> devkit_events]>>
    /\ dequeued = <<>>
    /\ lookup = NoLookup
    /\ call = NoCall
    /\ ToolsIdle

NextResolve ==
    \/ ResolveCall
    \/ ResolveReturn

SpecResolve == InitResolve /\ [][NextResolve]_vars

\* the state in which neither discovery nor the resolver is in use
DiscoveryIdle ==
    /\ g_zeroconf_listener = "None"
    /\ devkits = <<>>
    /\ devkit_events = <<>>
    /\ callbacks = <<>>
    /\ dequeued = <<>>
    /\ lookup = NoLookup
    /\ call = NoCall

\* one DevkitClient whose ssh_command is called again and again, each call
\* after the one before returned or raised; the drain workers run as
\* threads of their own
InitSsh == DiscoveryIdle /\ ToolsIdle

NextSsh ==
    \/ SshCommand
    \/ \E i \in 1..Len(ssh_calls) : StartThreads(i)
    \/ \E i \in 1..Len(ssh_calls) : WriteStdin(i)
    \/ \E i \in 1..Len(ssh_calls) : RecvExitStatus(i)
    \/ \E i \in 1..Len(ssh_calls) : Join(i)
    \/ \E i \in 1..Len(ssh_calls) : SshReturn(i)
    \/ \E i \in 1..Len(ssh_calls) : StdoutThread(i)
    \/ \E i \in 1..Len(ssh_calls) : StderrThread(i)

SpecSsh == InitSsh /\ [][NextSsh]_vars

\* the steps of the calls made so far
SshSteps ==
    \/ \E i \in 1..Len(ssh_calls) : StartThreads(i)
    \/ \E i \in 1..Len(ssh_calls) : WriteStdin(i)
    \/ \E i \in 1..Len(ssh_calls) : RecvExitStatus(i)
    \/ \E i \in 1..Len(ssh_calls) : Join(i)
    \/ \E i \in 1..Len(ssh_calls) : SshReturn(i)
    \/ \E i \in 1..Len(ssh_calls) : StdoutThread(i)
    \/ \E i \in 1..Len(ssh_calls) : StderrThread(i)

\* one call, of a command that may fill its output before it reads its
\* input; the call and its workers take their steps as long as they can
NextSshAlone ==
    \/ SshCommandAlone
    \/ SshSteps

SpecSshAlone == InitSsh /\ [][NextSshAlone]_vars /\ WF_vars(NextSshAlone)

\* JSON mode calls of one client that run at the same time
NextSshConcurrent ==
    \/ SshCommandConcurrent
    \/ SshSteps

SpecSshConcurrent == InitSsh /\ [][NextSshConcurrent]_vars

\* one DevkitClient whose rsync_transfer is called again and again on one
\* thread, while another thread calls on_cancel_transfer
InitRsync == DiscoveryIdle /\ ToolsIdle

NextRsync ==
    \/ RsyncTransfer
    \/ RsyncCheck
    \/ RsyncSpawn
    \/ ProcessExit
    \/ RsyncReadUndecodable
    \/ RsyncReadEof
    \/ RsyncWait
    \/ RsyncClear
    \/ CancelTest
    \/ CancelTerminate

SpecRsync == InitRsync /\ [][NextRsync]_vars

\* calls of screenshot, one after the other
InitScreenshot == DiscoveryIdle /\ ToolsIdle

NextScreenshot ==
    \/ Screenshot
    \/ ShotPoll
    \/ ShotExhausted
    \/ ShotDownload
    \/ ShotAfterLoop

SpecScreenshot == InitScreenshot /\ [][NextScreenshot]_vars

\* calls of _obtain_trace, one after the other
InitTrace == DiscoveryIdle /\ ToolsIdle

NextTrace ==
    \/ ObtainTrace
    \/ TraceCapture
    \/ TraceStart
    \/ TraceCaptureAgain
    \/ TraceCheck
    \/ TraceGet

SpecTrace == InitTrace /\ [][NextTrace]_vars

\* calls of set_session, one after the other
InitSession == DiscoveryIdle /\ ToolsIdle

NextSession ==
    \/ SetSession
    \/ SessionPoll
    \/ SessionTimeout

SpecSession == InitSession /\ [][NextSession]_vars

\* threads that call ensure_devkit_key, each again and again, on a machine
\* whose key files are any of StartFiles
InitKey ==
    /\ DiscoveryIdle
    /\ SshIdle /\ RsyncIdle /\ ShotIdle /\ TraceIdle /\ SessionIdle /\ LocateIdle /\ RgpIdle /\ GameIdle
    /\ g_lock = None
    /\ key_thread = [t \in 1..KeyThreads |-> NoKeyCall]
    /\ key_calls = 0
    /\ key_log = <<>>
    /\ key_start \in StartFiles
    /\ private_key_file = key_start.private
    /\ public_key_file = key_start.pub

NextKey ==
    \/ \E t \in 1..KeyThreads : EnsureDevkitKey(t)
    \/ \E t \in 1..KeyThreads : KeyAcquire(t)
    \/ \E t \in 1..KeyThreads : KeyLoad(t)
    \/ \E t \in 1..KeyThreads : KeyFixAndLoad(t)
    \/ \E t \in 1..KeyThreads : KeyUnlink(t)
    \/ \E t \in 1..KeyThreads : KeyGenerate(t)
    \/ \E t \in 1..KeyThreads : KeyWritePrivate(t)
    \/ \E t \in 1..KeyThreads : KeyWritePrivateEnd(t)
    \/ \E t \in 1..KeyThreads : KeyWritePub(t)
    \/ \E t \in 1..KeyThreads : KeyFix(t)
    \/ \E t \in 1..KeyThreads : KeyReturn(t)

SpecKey == InitKey /\ [][NextKey]_vars

\* calls of locate_cygwin_tools on a machine that has any of the tools, and
\* whose user installs the missing ones between the calls
InitLocate ==
    /\ DiscoveryIdle
    /\ SshIdle /\ RsyncIdle /\ ShotIdle /\ TraceIdle /\ SessionIdle /\ KeyIdle /\ RgpIdle /\ GameIdle
    /\ g_external_tools = None
    /\ installed_tools \in SUBSET Tools
    /\ locate_env \in LocateEnvs
    /\ locate_log = <<>>

NextLocate ==
    \/ LocateCygwinTools
    \/ \E tool \in Tools : InstallTool(tool)

SpecLocate == InitLocate /\ [][NextLocate]_vars

\* one call of rgp_capture, whatever the remote commands answer
InitRgp == DiscoveryIdle /\ ToolsIdle

NextRgp ==
    \/ RgpCapture
    \/ RgpList
    \/ RgpListTimeout
    \/ RgpStat
    \/ RgpStatFails
    \/ RgpDownload

SpecRgp == InitRgp /\ [][NextRgp]_vars

\* the same, with a call that takes its next step as long as it has one
SpecRgpLive == SpecRgp /\ WF_vars(NextRgp)

\* threads that save details of one game, each for its own machine
InitGame == DiscoveryIdle /\ ToolsIdle

NextGame ==
    \/ \E t \in 1..SaveThreads : SaveGameDetails(t)
    \/ \E t \in 1..SaveThreads : SaveRead(t)
    \/ \E t \in 1..SaveThreads : SaveOpen(t)
    \/ \E t \in 1..SaveThreads : SaveDump(t)
    \/ \E t \in 1..SaveThreads : SaveReplace(t)

SpecGame == InitGame /\ [][NextGame]_vars

----------------------------------------------------------------------------
(* Properties of the discovery cache, under Spec *)

\* the events the first n callbacks put, in callback order
RECURSIVE PutBy(_)
PutBy(n) == IF n = 0 THEN <<>> ELSE PutBy(n - 1) \o callbacks[n].put

\* every event put on the queue so far, oldest first
Produced == dequeued \o devkit_events

\* a lookup that returned normally with values taken from a record
LookupUsedRecord ==
    /\ lookup.pc = "done"
    /\ lookup.status = "ok"
    /\ ~IsNone(lookup.info)

\* C1: no lookup (address_for_service, port_for_service, update_service_info
\* on its cached and on its query path) returns or copies into a Machine
\* values of a record whose txtvers differs from the supported version.
C1_UnsupportedNeverSurfaced ==
    LookupUsedRecord => Supported(Val(lookup.info))

\* callback i added a name that was absent, having obtained a supported
\* record, and callback i + 1 removed the same name
AddThenRemove(i) ==
    /\ callbacks[i].op = "add_service"
    /\ ~callbacks[i].had
    /\ callbacks[i].ok
    /\ callbacks[i + 1].op = "remove_service"
    /\ callbacks[i + 1].name = callbacks[i].name

\* C2: an add_service callback for an absent name that obtains a supported
\* record, followed by a remove_service callback for that name, enqueues
\* exactly one ('add', name) and then exactly one ('del', name), and the
\* name is then no key of devkits.
C2_AddThenRemove ==
    \A i \in 1..(Len(callbacks) - 1) :
        AddThenRemove(i) =>
            LET name == callbacks[i].name
                before == Len(PutBy(i - 1))
            IN  /\ Len(Produced) >= before + 2
                /\ SubSeq(Produced, before + 1, before + 2)
                       = << <<"add", name>>, <<"del", name>> >>
                /\ Len(PutBy(i + 1)) = before + 2
                /\ ~callbacks[i + 1].has
                /\ i + 1 = Len(callbacks) => name \notin DOMAIN devkits

\* C2, its case: such a pair of callbacks has run
C2_Witness ==
    \E i \in 1..(Len(callbacks) - 1) : AddThenRemove(i)

IsAddOrUpdate(cb) == cb.op \in {"add_service", "update_service"}

\* C3 as stated: every add_service or update_service callback for a name
\* that is a key of devkits enqueues ('update', name).
C3_AsStated ==
    \A i \in 1..Len(callbacks) :
        IsAddOrUpdate(callbacks[i]) /\ callbacks[i].had =>
            callbacks[i].put = << <<"update", callbacks[i].name>> >>

\* C3, amended: an add_service or update_service callback for a name that
\* is a key of devkits enqueues ('update', name) when it obtains a
\* supported record and nothing otherwise, never ('add', name); a callback
\* enqueues ('add', name) only when the name was absent just before it.
C3_UpdateNotAdd ==
    \A i \in 1..Len(callbacks) :
        LET cb == callbacks[i]
        IN  /\ IsAddOrUpdate(cb) /\ cb.had =>
                cb.put = IF cb.ok THEN << <<"update", cb.name>> >> ELSE <<>>
            /\ \A j \in 1..Len(cb.put) :
                   cb.put[j][1] = "add" =>
                       cb.put[j][2] = cb.name /\ ~cb.had

\* C3, its case: a name was added again while in the map
C3_Witness ==
    \E i \in 1..Len(callbacks) :
        /\ callbacks[i].op = "add_service"
        /\ callbacks[i].had /\ callbacks[i].ok
        /\ callbacks[i].put = << <<"update", callbacks[i].name>> >>

\* C4: the events a consumer dequeues, followed by those still queued, are
\* the events the callbacks produced, in callback order: none lost,
\* duplicated or reordered.
C4_Fifo ==
    dequeued \o devkit_events = PutBy(Len(callbacks))

\* C4, its case: a consumer dequeued two different events
C4_Witness ==
    /\ Len(dequeued) >= 2
    /\ dequeued[1] # dequeued[2]

\* C5: update_service_info never replaces a login or an entry point
\* (devkit1) that the caller supplied by the record's values.
C5_CallerValuesWin ==
    lookup.pc = "done" /\ lookup.op = "update_service_info"
        /\ lookup.status = "ok" =>
        /\ ~IsNone(lookup.caller.login) =>
               lookup.machine.login = lookup.caller.login
        /\ lookup.caller.devkit1 # <<>> =>
               lookup.machine.devkit1 = lookup.caller.devkit1

----------------------------------------------------------------------------
(* Properties of the resolver, under SpecResolve *)

Returned == call.pc = "returned"

ReturnedOk == Returned /\ call.result.status = "ok"

\* the same call in another mode or for another name
ResolveAs(name, name_type) ==
    resolve_machine(name, call.devkit1, call.login, call.need_login,
                    call.need_devkit1, name_type, call.http_port, call.env)

\* two calls return the same machine, or raise the same error about the
\* same name
SameOutcome(r1, r2) ==
    /\ r1.status = r2.status
    /\ r1.status = "ok" => r1.machine = r2.machine
    /\ r1.status # "ok" => r1.error_name = r2.error_name

\* C6: whenever resolve_machine returns, the returned machine's address is
\* not empty.
C6_AddressNonEmpty ==
    ReturnedOk => call.result.machine.address # <<>>

\* the service suffix form a name ends in, and the name without it
SuffixForm(name) ==
    CHOOSE suffix \in ServiceSuffixes :
        /\ EndsWith(name, suffix)
        /\ \A other \in ServiceSuffixes :
               EndsWith(name, other) => Len(other) <= Len(suffix)

WithoutSuffixForm(name) == DropSuffix(name, SuffixForm(name))

GuessOfServiceForm ==
    Returned /\ call.name_type = "GUESS" /\ IsServiceForm(call.name)

\* C7 as stated: for every name ending in a service suffix form, GUESS
\* mode has the outcome of SERVICE_NAME mode on the name without the suffix.
C7_AsStated ==
    GuessOfServiceForm =>
        SameOutcome(call.result,
                    ResolveAs(WithoutSuffixForm(call.name), "SERVICE_NAME"))

\* what is left of a name has no further optional suffix to strip
FullyStripped(name) ==
    /\ ~EndsWith(name, Dot)
    /\ ~EndsWith(name, Dot \o LOCAL_DOMAIN)
    /\ ~EndsWith(name, Dot \o STEAMOS_DEVKIT_SERVICE)

\* C7, amended: for every name ending in a service suffix form, GUESS mode
\* has the outcome of SERVICE_NAME mode on the same name, and that of
\* SERVICE_NAME mode on the name without the suffix when what is left does
\* not itself end in '.', '.local' or '._steamos-devkit._tcp'.
C7_GuessIsServiceName ==
    GuessOfServiceForm =>
        /\ SameOutcome(call.result, ResolveAs(call.name, "SERVICE_NAME"))
        /\ FullyStripped(WithoutSuffixForm(call.name)) =>
               SameOutcome(call.result,
                   ResolveAs(WithoutSuffixForm(call.name), "SERVICE_NAME"))

\* C7, its case: GUESS resolved foo._steamos-devkit._tcp.local. to a machine
C7_Witness ==
    /\ GuessOfServiceForm
    /\ call.name = Foo \o Dot \o STEAM_DEVKIT_TYPE
    /\ call.result.status = "ok"
    /\ call.result.machine.name = Foo

\* C8: in GUESS mode a dotted name that is in no service suffix form is
\* resolved as ADDRESS with no discovery lookup; a name without a dot is
\* first resolved as SERVICE_NAME, and is taken as an address if and only
\* if that attempt raised MachineNotFoundError.
C8_GuessOrder ==
    Returned /\ call.name_type = "GUESS" =>
        LET r == call.result
        IN  /\ ~IsServiceForm(call.name) /\ HasDot(call.name) =>
                /\ r.interp = <<"ADDRESS">>
                /\ r.lookups = 0
                /\ r = ResolveAs(call.name, "ADDRESS")
            /\ ~HasDot(call.name) =>
                /\ r.interp[1] = "SERVICE_NAME"
                /\ r.interp = <<"SERVICE_NAME", "fallback">>
                       <=> ResolveAs(call.name, "SERVICE_NAME").status
                               = "MachineNotFoundError"
                /\ r.interp = <<"SERVICE_NAME", "fallback">> =>
                       /\ r.status # "MachineNotFoundError"
                       /\ r.machine.address = call.name
                /\ r.interp = <<"SERVICE_NAME">> =>
                       r = ResolveAs(call.name, "SERVICE_NAME")

\* C8, its case: a name without a dot was taken as an address after its
\* discovery lookup raised MachineNotFoundError
C8_Witness ==
    /\ Returned /\ call.name_type = "GUESS" /\ ~HasDot(call.name)
    /\ call.result.interp = <<"SERVICE_NAME", "fallback">>
    /\ call.result.lookups = 1

\* C9: for SERVICE_NAME and ADDRESS mode, resolving the returned
\* normalized_name again in the same mode yields the same normalized_name,
\* when that lookup succeeds.
C9_NormalizeIdempotent ==
    ReturnedOk /\ call.name_type \in {"SERVICE_NAME", "ADDRESS"} =>
        LET again == ResolveAs(call.result.machine.normalized_name,
                               call.name_type)
        IN  again.status = "ok" =>
                again.machine.normalized_name
                    = call.result.machine.normalized_name

FooLocal == Foo \o Dot \o LOCAL_DOMAIN

\* a call for one of the three spellings, with a discovery record for foo
SpellingOfFoo ==
    /\ ReturnedOk
    /\ call.name \in {FooLocalDot, FooLocal, FOO}
    /\ call.name_type \in {"GUESS", "SERVICE_NAME"}
    /\ call.env.listener = "listener"
    /\ Foo \in DOMAIN call.env.devkits \/ Obtained(call.env.answer)

\* C10 as stated: resolving "Foo.local.", "foo.local" and "FOO" in GUESS or
\* SERVICE_NAME mode, with a discovery record for foo, yields
\* normalized_name "foo" (a GUESS call whose discovery lookup found nothing
\* set aside).
C10_AsStated ==
    SpellingOfFoo /\ call.result.interp # <<"SERVICE_NAME", "fallback">> =>
        call.result.machine.normalized_name = Foo

\* C10, amended: in SERVICE_NAME mode "Foo.local.", "foo.local" and "FOO"
\* each yield normalized_name "foo" when the lookup succeeds, and so does
\* "FOO" in GUESS mode; GUESS mode resolves "Foo.local." and "foo.local"
\* as ADDRESS, with normalized_name "foo.local".
C10_Spellings ==
    SpellingOfFoo =>
        LET r == call.result
        IN  /\ call.name_type = "SERVICE_NAME" => r.machine.normalized_name = Foo
            /\ call.name_type = "GUESS" /\ call.name = FOO
                   /\ r.interp = <<"SERVICE_NAME">> =>
                   r.machine.normalized_name = Foo
            /\ call.name_type = "GUESS" /\ call.name # FOO =>
                   /\ r.interp = <<"ADDRESS">>
                   /\ r.machine.normalized_name = FooLocal

\* C10, its case: SERVICE_NAME mode resolved "Foo.local." by a query
C10_Witness ==
    /\ SpellingOfFoo
    /\ call.name = FooLocalDot
    /\ call.name_type = "SERVICE_NAME"
    /\ call.result.lookups = 1

----------------------------------------------------------------------------
(* Properties of ssh_command, under SpecSsh *)

\* the calls that returned or raised after they had read the exit status
Completed(i) == Finished(ssh_calls[i]) /\ ~IsNone(ssh_calls[i].exit_status)

\* whether the bytes are a JSON document in UTF-8
JsonDocument(bytes) == Utf8Valid(bytes) /\ json_loads(bytes).ok

\* C11: a call whose remote command exited with a status other than 0
\* raises CalledProcessError with that status and the command, in JSON mode
\* and in stream_output_to mode alike.
C11_NonZeroExitRaises ==
    \A i \in 1..Len(ssh_calls) :
        Completed(i) /\ Val(ssh_calls[i].exit_status) # 0 =>
            ssh_calls[i].outcome = CalledProcessError(ssh_calls[i].remote.exit_status, ssh_calls[i].command)

\* C12: a JSON mode call whose command exited 0 and wrote to stdout bytes
\* that are no JSON document (bytes that are not UTF-8 among them) raises;
\* it returns no value.
C12_ParseFailureRaises ==
    \A i \in 1..Len(ssh_calls) :
        /\ Completed(i)
        /\ ~ssh_calls[i].stream_output_to
        /\ Val(ssh_calls[i].exit_status) = 0
        /\ ~JsonDocument(ssh_calls[i].remote.stdout)
        => /\ ssh_calls[i].pc = "raised"
           /\ ssh_calls[i].outcome.kind \notin {"return", "CalledProcessError"}

\* C13: in a sequence of JSON mode calls made one after the other, a call
\* whose command exited 0 and wrote a JSON document to stdout returns the
\* parse of that document.
C13_ReturnsOwnParse ==
    \A i \in 1..Len(ssh_calls) :
        /\ Completed(i)
        /\ \A j \in 1..i : ~ssh_calls[j].stream_output_to
        /\ Val(ssh_calls[i].exit_status) = 0
        /\ JsonDocument(ssh_calls[i].remote.stdout)
        => ssh_calls[i].outcome = Returns(Some(json_loads(ssh_calls[i].remote.stdout).value))

\* C14: a call that has returned or raised has started its two drain
\* workers, and both have ended.
C14_WorkersEndWithCall ==
    \A i \in 1..Len(ssh_calls) :
        Finished(ssh_calls[i]) =>
            /\ ssh_calls[i].stdout_thread = "done"
            /\ ssh_calls[i].stderr_thread = "done"

----------------------------------------------------------------------------
(* Properties of rsync_transfer and on_cancel_transfer, under SpecRsync *)

\* C15: on_cancel_transfer, called on another thread at any point of
\* rsync_transfer, does not raise, and the transfer process it found is
\* not running any more once it has returned.
C15_CancelNeverRaises ==
    /\ cancel.pc # "raised"
    /\ cancel.pc = "returned" /\ ~IsNone(cancel.target) =>
           ~processes[Val(cancel.target)].alive

\* C16: a call of rsync_transfer with a localdir that is not a directory
\* raises at its first step: it spawns no process and leaves rsync_process
\* as the call found it.
C16_MissingDirRaisesFirst ==
    transfer.pc # "idle" /\ ~transfer.isdir =>
        /\ transfer.pc \in {"check", "raised"}
        /\ transfer.pc = "raised" => transfer.outcome = Raises("Exception")
        /\ rsync_process = transfer.before
        /\ Len(processes) = transfer.spawned

\* C16, its case: the call raised for a missing localdir while
\* rsync_process still held the process of an earlier transfer
C16_Witness ==
    /\ transfer.pc = "raised"
    /\ ~transfer.isdir
    /\ ~IsNone(rsync_process)
    /\ transfer.spawned = 1

----------------------------------------------------------------------------
(* Properties of screenshot, under SpecScreenshot *)

\* C17: when one of the polls of a call, the 1st to the 100th, finds the
\* remote file, the call fetches it and returns; it does not raise.
C17_FoundWithinBudgetReturns ==
    shot.pc \in {"returned", "raised"} /\ ~IsNone(shot.remote_filename) =>
        /\ shot.pc = "returned"
        /\ ~IsNone(shot.local_path)

\* the path computed by the call that has chosen its local path
ShotComputed == ComputedPath(shot.folder, shot.filename, shot.do_timestamp, Val(shot.remote_filename))

\* C18: the path downloaded to did not exist when it was chosen: it is the
\* computed path when that did not exist, else the first of base_000,
\* base_001, ... (with the suffix) that did not exist.
C18_FreshPath ==
    ~IsNone(shot.local_path) =>
        /\ Val(shot.local_path) \notin shot.exists
        /\ ShotComputed \notin shot.exists => Val(shot.local_path) = ShotComputed
        /\ ShotComputed \in shot.exists =>
               \E i \in 0..MaxFiles :
                   /\ Val(shot.local_path) = TestPath(ShotComputed, i)
                   /\ \A j \in 0..(i - 1) : TestPath(ShotComputed, j) \in shot.exists

\* C18, its case: d/a.png and d/a_000.png exist, d/a_001.png does not, and
\* the call for the file name a.b downloaded to d/a_001.png
C18_Witness ==
    /\ shot.pc = "returned"
    /\ shot.filename = Some(FILENAME_A_B)
    /\ ~shot.do_timestamp
    /\ <<"d","/","a",".","p","n","g">> \in shot.exists
    /\ <<"d","/","a","_","0","0","0",".","p","n","g">> \in shot.exists
    /\ shot.local_path = Some(<<"d","/","a","_","0","0","1",".","p","n","g">>)

----------------------------------------------------------------------------
(* Properties of _obtain_trace, under SpecTrace *)

\* the number of requests of one kind that the call has issued
Issued(kind) == Cardinality({i \in 1..Len(trace.requests) : trace.requests[i] = kind})

\* C19: the capture request is issued at most twice and the start request
\* at most once; a second capture request follows a failed first one and
\* the start request; when the second capture request fails too (exit
\* status other than 0, or 'Failed to capture trace' on stderr) the call
\* raises and fetches nothing.
C19_RetryOnceThenFatal ==
    /\ Issued("capture") <= 2
    /\ Issued("start") <= 1
    /\ Len(trace.captures) = 2 =>
           /\ CaptureFailed(trace.captures[1])
           /\ SubSeq(trace.requests, 3, 5) = <<"capture", "start", "capture">>
    /\ Len(trace.captures) = 2 /\ CaptureFailed(trace.captures[2]) =>
           /\ Issued("get") = 0
           /\ trace.pc \in {"returned", "raised"} => trace.pc = "raised"

----------------------------------------------------------------------------
(* Properties of set_session, under SpecSession *)

\* C20: a call with wait whose polls never found the target session ready
\* returns, after its last poll, the status of the latest poll that
\* produced a status.
C20_TimeoutReturnsLastStatus ==
    session.timed_out /\ ~IsNone(session.observed) =>
        /\ session.pc = "returned"
        /\ session.outcome = Returns(session.observed)

\* C21: a call that requested the session change (steamos-session-select
\* exited 0) and in which no status command failed does not return None,
\* with and without wait.
C21_NoneOnlyOnFailure ==
    session.pc = "returned" /\ session.select_status = 0 /\ ~session.failed =>
        session.outcome # Returns(None)

\* the behaviour started with no key files
NoKeyFilesAtStart == key_start.private.state = "absent" /\ key_start.pub.state = "absent"

\* the entries of key_log of one operation
KeyLogged(op) == {i \in 1..Len(key_log) : key_log[i].op = op}

\* C22: when the calls of several threads start with no key files, one call
\* at most generates a key and writes the private key file, every call that
\* returns returns that one key, no call fails, and no call loads a private
\* key file of which only a part is written.
C22_OneGeneratesAllShare ==
    NoKeyFilesAtStart =>
        /\ Cardinality(KeyLogged("generate")) <= 1
        /\ Cardinality(KeyLogged("write_private")) <= 1
        /\ \A i \in KeyLogged("load") : key_log[i].id >= 0
        /\ \A t \in 1..KeyThreads : key_thread[t].pc # "raised"
        /\ \A t \in 1..KeyThreads : key_thread[t].pc = "returned" =>
               /\ Cardinality(KeyLogged("generate")) = 1
               /\ key_thread[t].outcome = Returns(Some(<<1, KEY_PATH, PUBKEY_PATH>>))

\* two threads have returned from calls that started with no key files, one
\* of them after waiting for the lock the other held while it wrote
C22_Witness ==
    /\ NoKeyFilesAtStart
    /\ \A t \in 1..KeyThreads : key_thread[t].pc = "returned"
    /\ \E i \in KeyLogged("write_private") : \E j \in KeyLogged("load") :
           i < j /\ key_log[i].thread # key_log[j].thread

C24_Idempotent ==
    /\ \A i \in KeyLogged("return") : \A j \in (i + 1)..Len(key_log) :
           /\ key_log[j].op \notin {"generate", "write_private", "write_pub"}
           /\ key_log[j].op = "return" => key_log[j].id = key_log[i].id
    /\ \A t \in 1..KeyThreads : key_thread[t].pc = "returned" =>
           /\ key_thread[t].outcome.value[1][2] = KEY_PATH
           /\ key_thread[t].outcome.value[1][3] = PUBKEY_PATH
           /\ private_key_file = KeyFileOf(key_thread[t].outcome.value[1][1])

\* the call that generated the key has returned, and so has a later call
C24_Witness ==
    /\ KeyLogged("generate") # {}
    /\ \E i \in KeyLogged("return") : \E j \in KeyLogged("return") : i < j

\* C25: every call of locate_cygwin_tools made while ssh or rsync is
\* missing raises.
C25_MissingToolAlwaysRaises ==
    \A i \in 1..Len(locate_log) :
        locate_log[i].missing # {} => locate_log[i].outcome = Raises("Exception")

\* a finished update_service_info
UpdateDone == lookup.pc = "done" /\ lookup.op = "update_service_info"

\* C26: update_service_info makes no query and uses the record of the map
\* when machine.name is a key of it; else it makes one query, with the
\* timeout ZEROCONF_TIMEOUT, and raises MachineNotFoundError when the query
\* returned nothing or a record without address.
C26_CachedElseOneQuery ==
    UpdateDone =>
        /\ lookup.found => lookup.queries = 0
        /\ lookup.found /\ lookup.name \in DOMAIN devkits => lookup.info = Some(devkits[lookup.name])
        /\ ~lookup.found => lookup.queries = 1 /\ lookup.timeout = ZEROCONF_TIMEOUT
        /\ ~lookup.found /\ IsNone(lookup.info) => lookup.status = "MachineNotFoundError"
        /\ ~lookup.found /\ ~IsNone(lookup.info) =>
               (Len(Val(lookup.info).addresses) = 0 => lookup.status = "MachineNotFoundError")

\* the one query of a call for a name that is no key returned a record
\* without address
C26_Witness ==
    /\ UpdateDone /\ ~lookup.found /\ lookup.queries = 1
    /\ lookup.info = Some(InfoNoAddr)
    /\ lookup.status = "MachineNotFoundError"

\* C30: a step of address_for_service, port_for_service or
\* update_service_info, the query of the latter included, changes neither
\* the devkits map nor the event queue; the map is changed by listener
\* callbacks only, and the queue by them and by the get of its consumer.
C30_LookupsChangeNothing ==
    [][/\ lookup' # lookup => devkits' = devkits /\ devkit_events' = devkit_events
       /\ devkits' # devkits => Len(callbacks') = Len(callbacks) + 1
       /\ devkit_events' # devkit_events =>
              \/ Len(callbacks') = Len(callbacks) + 1
              \/ dequeued' # dequeued /\ devkit_events' = Tail(devkit_events)]_vars

\* update_service_info obtained, by its query, the record of a name that
\* is no key of the map, and the name is no key after it
C30_Witness ==
    /\ UpdateDone /\ lookup.queries = 1 /\ lookup.status = "ok"
    /\ lookup.name \notin DOMAIN devkits
    /\ callbacks # <<>>

\* the machine of the call before its HTTP requests: that of the same call
\* with nothing required
BeforeRequests ==
    resolve_machine(call.name, call.devkit1, call.login, FALSE, FALSE,
                    call.name_type, call.http_port, call.env).machine

\* the call issued a request for the path
Asked(path) == \E i \in 1..Len(call.result.requests) : call.result.requests[i][1] = path

\* the request met a network error
NetworkError(response) == response.kind \in {"error", "read_error"}

\* C27: when the /properties.json request fails with a network error, the
\* call does not raise and login, devkit1 and settings are what they were
\* before the request; when the /login-name request fails too, the call
\* returns with login None.
C27_NetworkErrorsSwallowed ==
    Returned /\ Asked("/properties.json") /\ NetworkError(call.env.props) =>
        /\ call.result.status = "ok"
        /\ call.result.machine.devkit1 = BeforeRequests.devkit1
        /\ call.result.machine.settings = BeforeRequests.settings
        /\ ~Asked("/login-name") => call.result.machine.login = BeforeRequests.login
        /\ Asked("/login-name") /\ NetworkError(call.env.login_name) =>
               call.result.machine.login = None

\* C28: /properties.json is requested only when login is required and
\* unset or the entry point is required and empty; /login-name only after
\* it and only when login is required and unset; nothing is requested when
\* neither is required.
C28_RequestsOnlyWhenRequired ==
    Returned =>
        /\ Asked("/properties.json") =>
               \/ call.need_login /\ IsNone(BeforeRequests.login)
               \/ call.need_devkit1 /\ BeforeRequests.devkit1 = <<>>
        /\ Asked("/login-name") =>
               /\ call.need_login /\ IsNone(BeforeRequests.login)
               /\ call.result.requests[Len(call.result.requests)][1] = "/login-name"
        /\ ~call.need_login /\ ~call.need_devkit1 => call.result.requests = <<>>

\* C29: a MachineNotFoundError of the SERVICE_NAME resolution reaches the
\* caller in SERVICE_NAME mode, without a listener too, and in GUESS mode
\* for a name in a service suffix form; the fallback to an address is
\* taken in GUESS mode for a name without a dot only.
C29_NotFoundPropagates ==
    Returned =>
        LET direct == resolve_direct(call.name, call.devkit1, call.login, call.need_login, call.need_devkit1, "SERVICE_NAME", call.http_port, call.env)
            as_service == call.name_type = "SERVICE_NAME" \/ (call.name_type = "GUESS" /\ IsServiceForm(call.name))
        IN  /\ as_service /\ direct.status = "MachineNotFoundError" =>
                   call.result.status = "MachineNotFoundError"
            /\ as_service /\ call.env.listener = "None" =>
                   call.result.status = "MachineNotFoundError"
            /\ call.result.interp # <<>> /\ call.result.interp[Len(call.result.interp)] = "fallback" =>
                   call.name_type = "GUESS" /\ ~HasDot(call.name)

\* GUESS mode let the MachineNotFoundError of the lookup of a name in a
\* service suffix form reach the caller
C29_Witness ==
    /\ Returned /\ call.name_type = "GUESS" /\ IsServiceForm(call.name)
    /\ call.result.status = "MachineNotFoundError"
    /\ call.result.lookups = 1

\* the callbacks that put an event
Putting == {i \in 1..Len(callbacks) : callbacks[i].put # <<>>}

\* C33: a callback that puts an event has changed the map before: when
\* ('add', name) or ('update', name) is put, the name is in the map with
\* the record the callback leaves there, and when ('del', name) is put the
\* name is not in the map; the put changes the queue only.
C33_MapBeforeEvent ==
    \A i \in Putting :
        LET c == callbacks[i]
            at_put == c.steps[2]
            event == c.put[1]
        IN  /\ Len(c.steps) = 3
            /\ at_put.devkit_events = c.steps[1].devkit_events
            /\ c.steps[3].devkits = at_put.devkits
            /\ c.steps[3].devkit_events = Put(at_put.devkit_events, event)
            /\ event[1] \in {"add", "update"} =>
                   /\ event[2] \in DOMAIN at_put.devkits
                   /\ at_put.devkits[event[2]] = c.steps[3].devkits[event[2]]
            /\ event[1] = "del" => event[2] \notin DOMAIN at_put.devkits

\* an add, an update and a del have each been put
C33_Witness ==
    \E i \in Putting : \E j \in Putting :
        /\ i < j
        /\ callbacks[i].put[1][1] = "add"
        /\ callbacks[j].put[1][1] = "del"
        /\ callbacks[j].steps[1].devkits # callbacks[j].steps[2].devkits

\* the key set after the events are replayed on the key set keys: add
\* inserts, update keeps, del removes
RECURSIVE Replay(_, _)
Replay(keys, events) ==
    IF events = <<>> THEN keys
    ELSE LET e == Head(events)
         IN  Replay(CASE e[1] = "add" -> keys \cup {e[2]}
                      [] e[1] = "del" -> keys \ {e[2]}
                      [] OTHER -> keys,
                    Tail(events))

\* callback i left the map as it found it
MapKept(i) == callbacks[i].steps[Len(callbacks[i].steps)].devkits = callbacks[i].steps[1].devkits

\* C35: the key set of devkits is the one obtained by replaying every
\* event put so far; a callback that changes the map puts exactly one
\* event, of the kind of the change; a remove of an unknown name and an
\* add whose query obtained no supported record change nothing and put
\* nothing.
C35_MapIsReplayOfEvents ==
    /\ DOMAIN devkits = Replay({}, PutBy(Len(callbacks)))
    /\ \A i \in 1..Len(callbacks) :
           LET c == callbacks[i]
           IN  /\ Len(c.put) <= 1
               /\ ~MapKept(i) => Len(c.put) = 1 /\ c.put[1][2] = c.name
               /\ ~c.had /\ c.has => c.put = << <<"add", c.name>> >>
               /\ c.had /\ ~c.has => c.put = << <<"del", c.name>> >>
               /\ c.had /\ c.has /\ ~MapKept(i) => c.put = << <<"update", c.name>> >>
               /\ c.op = "remove_service" /\ ~c.had => c.put = <<>> /\ MapKept(i)
               /\ c.op # "remove_service" /\ ~c.ok => c.put = <<>> /\ MapKept(i)

\* one name was added and stays, and the remove of another, unknown name
\* changed and reported nothing
C35_Witness ==
    /\ Len(callbacks) = 2
    /\ callbacks[1].put = << <<"add", callbacks[1].name>> >>
    /\ callbacks[2].op = "remove_service" /\ ~callbacks[2].had
    /\ DOMAIN devkits = {callbacks[1].name}

\* a call with wait has returned from inside its loop
ReturnedFromLoop == session.pc = "returned" /\ session.wait /\ ~session.timed_out

\* C34: a call with wait that returns from inside its loop returns a
\* status whose session is the requested one, and when that is gamescope a
\* status that reports the Steam client as other than NOT_RUNNING.
C34_EarlyReturnIsReady ==
    ReturnedFromLoop =>
        /\ session.outcome.kind = "return" /\ ~IsNone(session.outcome.value)
        /\ Val(session.outcome.value).session_status = session.target
        /\ session.target = GAMESCOPE =>
               Val(session.outcome.value).steam_status # STEAM_NOT_RUNNING

\* the call returned at its third poll, after a poll that saw gamescope
\* without the Steam client
C34_Witness ==
    /\ ReturnedFromLoop /\ session.target = GAMESCOPE
    /\ session.count = 3
    /\ Val(session.outcome.value).steam_status = STEAM_RUNNING

\* C31: every polling workflow ends after a bounded number of polls; for
\* rgp_capture: whatever ls and stat answer, the call sooner or later
\* downloads the capture or fails.
C31_RgpCaptureEnds == <>(rgp.pc \in {"returned", "raised"})

\* no save is in progress
SavesDone == \A t \in 1..SaveThreads : saver[t].pc \in {"idle", "returned", "raised"}

\* C40: when no save is in progress, the game file holds for the machine
\* of every thread whose save completed the details that save wrote, and
\* read_game_details returns them.
C40_NoSaveLost ==
    SavesDone =>
        \A t \in 1..SaveThreads : saver[t].pc = "returned" =>
            read_game_details(MachineOf(t)) = Returns(Some(saver[t].details))

\* C37: a lookup that runs while the listener thread removes its name ends
\* with the cached value or with the result for a name that is not
\* cached, never with a KeyError.
C37_LookupNeverKeyError ==
    lookup.pc = "done" => lookup.status # "KeyError"

\* the call fell back from the SERVICE_NAME attempt to an address
FellBack == Returned /\ call.name_type = "GUESS" /\ call.result.interp = <<"SERVICE_NAME", "fallback">>

\* C38: the machine of a GUESS call that fell back to the address
\* interpretation has the name, address and normalized_name of the machine
\* of the ADDRESS call for the same name with the same HTTP responses.
C38_FallbackIsAddressMode ==
    FellBack /\ call.result.status = "ok" =>
        LET address_mode == ResolveAs(call.name, "ADDRESS").machine
        IN  /\ call.result.machine.name = address_mode.name
            /\ call.result.machine.address = address_mode.address
            /\ call.result.machine.normalized_name = address_mode.normalized_name

\* C39: a call whose caller supplied a login returns a machine with that
\* login.
C39_SuppliedLoginKept ==
    ReturnedOk /\ ~IsNone(call.login) => call.result.machine.login = call.login

\* C32: a call that has written stdin or waits for the exit status has
\* started both workers before, a call past its stdin step has closed the
\* write side, and the call of a command that fills its output before it
\* reads its input ends all the same.
C32_WorkersBeforeStdin ==
    /\ [](\A i \in 1..Len(ssh_calls) :
            ssh_calls[i].pc \in {"recv_exit_status", "join", "joined", "returned"} =>
                ssh_calls[i].stdout_thread # "new" /\ ssh_calls[i].stderr_thread # "new")
    /\ [](\A i \in 1..Len(ssh_calls) :
            ssh_calls[i].pc = "write_stdin" =>
                ssh_calls[i].stdout_thread # "new" /\ ssh_calls[i].stderr_thread # "new")
    /\ <>(ssh_calls # <<>> /\ Finished(ssh_calls[1]))

\* the call of a command that fills its output first, made with
\* stdindata, has returned
C32_Witness ==
    /\ ssh_calls # <<>>
    /\ ssh_calls[1].remote.fills /\ ~IsNone(ssh_calls[1].stdindata)
    /\ ssh_calls[1].pc = "returned"
    /\ ssh_calls[1].stdout_thread = "done"

\* C36: a JSON mode call that runs while other JSON mode calls of the
\* client run, whose command exited 0 with UTF-8 text on stdout, returns
\* the parse of its own stdout or raises its own parse failure.
C36_ConcurrentCallsOwnResult ==
    \A i \in 1..Len(ssh_calls) :
        Completed(i) /\ Utf8Valid(ssh_calls[i].remote.stdout) =>
            ssh_calls[i].outcome = ssh_command_tail(ssh_calls[i], machine_readable_command_reader_thread(ssh_result, ssh_calls[i].remote.stdout))


====
